---- MODULE Spec2Model ----
(***************************************************************************)
(* Winpatable: the installation-order resolver                             *)
(* (WinpatableAI.suggest_installation_order, src/src/core/ai_assistant.py) *)
(* and the per-application installers (src/src/installers/                 *)
(* app_installers.py), as state machines.                                  *)
(***************************************************************************)
EXTENDS Integers, Sequences, FiniteSets, TLC

VARIABLES
    \* ---- resolver: suggest_installation_order ----
    deps,        \* the prerequisite table (local `deps`)
    apps,        \* the argument `apps`: a list of keys, duplicates allowed
    iterOrder,   \* the order in which the set object `remaining` yields its members
    ordered,     \* local `ordered`
    remaining,   \* local `remaining`
    snap,        \* list(remaining), the list the current for loop walks
    idx,         \* position of the for loop in snap (1-based)
    rpc,         \* control point: "while", "for", "done"
    prev         \* what the previous call with the same request set returned

rvars == <<deps, apps, iterOrder, ordered, remaining, snap, idx, rpc, prev>>

VARIABLES
    \* ---- installer: <Class>Installer.install of one catalog entry ----
    appKey,      \* the catalog key whose installer runs
    pathExists,  \* os.path.exists(installer_path)
    isRoot,      \* os.geteuid() == 0
    pkgMgr,      \* what DistroUtils.get_package_manager() finds on the host
    ipc,         \* control point of install
    di,          \* position of the running for loop (packages or DLLs), 1-based
    running,     \* the child processes that have not exited yet
    started,     \* the steps install has begun, in the order it began them
    calls,       \* every command line handed to subprocess.run, in order
    failed,      \* the steps in which a command raised or exited non-zero
    result       \* what install returned

ivars == <<appKey, pathExists, isRoot, pkgMgr, ipc, di, running, started, calls,
           failed, result>>

VARIABLES
    \* ---- environment: setup_environment, run_with_wine, launch_* ----
    osEnviron,     \* os.environ of the calling process
    wine_prefix,   \* the prefix root handed to the operation
    protonExists,  \* (Path(wine_prefix) / 'proton').exists()
    protonBinary,  \* (proton_dir / 'Proton' / 'proton').exists()
    appExists,     \* os.path.exists(app_path)
    entry,         \* the catalog key of the application at hand
    app_config,    \* the argument app_config of setup_environment: <<>> is
                   \* None, <<d>> is the dict d
    env,           \* the mapping the operation composed
    spawned,       \* the processes the operation started: command line and env
    launchRc,      \* what launch_application / launch_with_proton returned
    eop            \* the operation that ran, None before

evars == <<osEnviron, wine_prefix, protonExists, protonBinary, appExists, entry,
           app_config, env, spawned, launchRc, eop>>

VARIABLES
    \* ---- registry: ApplicationInstaller.configure_registry ----
    tweaks,      \* the argument: a list of paths, each with its list of values
    reg_file,    \* the lines of <prefix>/tweaks.reg, each a list of pieces
    gpc,         \* control point of configure_registry
    gp,          \* position of the loop over paths (1-based)
    gv,          \* position of the loop over the values of a path (1-based)
    regCmds,     \* the command lines handed to subprocess.run
    regResult    \* what configure_registry returned

gvars == <<tweaks, reg_file, gpc, gp, gv, regCmds, regResult>>

VARIABLES
    \* ---- catalog and command line: ApplicationManager, install-app ----
    app_name,        \* the name asked for, as a list of characters
    hasInstaller,    \* --installer was given a non-empty path
    mkdirOk,         \* <prefix>/applications can be created (or exists)
    cpc,             \* control point: "call", then the operation that ran
    installer_class, \* local of get_installer: what APPLICATIONS.get returned
    returned,        \* how get_installer ended: none, an installer, or raised
    listing,         \* what list_applications returned
    madeDirs,        \* the directories the operation created
    installCalls,    \* the calls of <installer>.install the command made
    output,          \* the messages the command wrote
    exitCode         \* exit status of the command, NotExited before

cvars == <<app_name, hasInstaller, mkdirOk, cpc, installer_class, returned,
           listing, madeDirs, installCalls, output, exitCode>>

VARIABLES
    \* ---- Wine prefix: WineManager ----
    prefixDir,    \* self.prefix_path exists as a directory
    config_file,  \* <prefix>/config.json: <<>> if absent, else <<document>>
    lastWritten,  \* the mapping of the most recent completed write, if any
    loaded,       \* what load_config returned since the most recent write
    wcalls,       \* number of WineManager methods called so far
    wpc,          \* "ready", or the step setup_complete_wine_environment is at
    attempted,    \* the steps the current setup has called, in order
    stepResults,  \* what each of them returned
    success,      \* local `success` of setup_complete_wine_environment
    setupResult   \* what the most recent setup returned, if one has returned

wvars == <<prefixDir, config_file, lastWritten, loaded, wcalls, wpc, attempted,
           stepResults, success, setupResult>>

VARIABLES
    \* ---- updater: auto_update, UpdateChecker ----
    updater_json, \* ~/.winpatable/updater.json: <<>> if absent, else <<dict>>
    now,          \* int(time.time()), in seconds
    uticks,       \* how often the clock has been advanced
    ucalls,       \* number of auto_update calls so far
    upc,          \* control point of auto_update, "ready" between calls
    uargs,        \* the arguments of the current call, and sys.stdin.isatty()
    perform,      \* locals perform_security and perform_feature
    ucfg,         \* local `cfg` of auto_update
    release,      \* checker.latest_release: <<>> if None, else <<release>>
    contacted,    \* requests made to GitHub in the current call
    downloads,    \* calls of download_and_extract_update in the current call
    install_dir,  \* content of the installation directory
    backup_dir,   \* content of install_dir + ".backup"
    atCall,       \* updater_json and the directories when the call began
    autoResult    \* what the call returned: "True", "False", "" while running

uvars == <<updater_json, now, uticks, ucalls, upc, uargs, perform, ucfg, release,
           contacted, downloads, install_dir, backup_dir, atCall, autoResult>>

VARIABLES
    \* ---- a PerformanceCache object ----
    cache,        \* self.cache: for each key <<>> or <<entry>>
    pclock,       \* datetime.now(), in hours
    phist,        \* the calls made so far
    got,          \* what the last get returned: <<>> before one, else <<value>>
    \* ---- a function wrapped by cached() ----
    wrapped,      \* self.cache of the decorator's PerformanceCache
    dclock,       \* datetime.now(), in hours
    runs,         \* for each wrapped function, the times at which it ran
    dret,         \* what the last wrapper call returned: <<>> or <<value>>
    \* ---- a PerformanceBenchmark object ----
    start_times,  \* self.start_times: for each name <<>> or <<time>>
    metrics,      \* self.metrics: for each name its samples, <<>> if absent
    bclock,       \* time.time(), in ticks
    bhist,        \* the start and end calls made so far
    ended         \* what the last end call returned: <<>>, else <<elapsed>>

pcvars == <<cache, pclock, phist, got>>

dvars == <<wrapped, dclock, runs, dret>>

bvars == <<start_times, metrics, bclock, bhist, ended>>

pvars == <<pcvars, dvars, bvars>>

\* the components added after the catalog
yvars == <<wvars, uvars, pvars>>

\* the components other than the resolver and the installer
xvars == <<evars, gvars, cvars, yvars>>

vars == <<rvars, ivars, xvars>>

(***************************************************************************)
(* Bounds                                                                  *)
(***************************************************************************)
MaxApps == 3

\* the keys requests are drawn from: four keys of the table and one key
\* ("photoshop") that has no entry in it
RequestKeys == {"dotnet48", "vcrun2019", "office", "visio", "photoshop"}

\* keys of the synthetic graphs
SyntheticKeys == {"a", "b", "c"}

None == "None"

\* the environment component before any operation is asked of it
EnvIdle ==
    /\ osEnviron = <<>>
    /\ wine_prefix = None
    /\ protonExists = FALSE
    /\ protonBinary = FALSE
    /\ appExists = FALSE
    /\ entry = None
    /\ app_config = <<>>
    /\ env = <<>>
    /\ spawned = <<>>
    /\ launchRc = None
    /\ eop = "idle"

\* the registry component before configure_registry is called
RegIdle ==
    /\ tweaks = <<>>
    /\ reg_file = <<>>
    /\ gpc = "idle"
    /\ gp = 0
    /\ gv = 0
    /\ regCmds = <<>>
    /\ regResult = None

NotExited == 0 - 1

\* the catalog component before any operation is asked of it
CatalogIdle ==
    /\ app_name = <<>>
    /\ hasInstaller = FALSE
    /\ mkdirOk = FALSE
    /\ cpc = "idle"
    /\ installer_class = None
    /\ returned = [kind |-> "pending", cls |-> None]
    /\ listing = <<>>
    /\ madeDirs = {}
    /\ installCalls = <<>>
    /\ output = <<>>
    /\ exitCode = NotExited

\* the Wine prefix before any method of WineManager is called
WineIdle ==
    /\ prefixDir = FALSE
    /\ config_file = <<>>
    /\ lastWritten = <<>>
    /\ loaded = <<>>
    /\ wcalls = 0
    /\ wpc = "idle"
    /\ attempted = <<>>
    /\ stepResults = <<>>
    /\ success = TRUE
    /\ setupResult = <<>>

\* a directory that does not exist, and one that holds part of a tree; a
\* directory that holds a complete installation is the number of its version
Absent == 0

Partial == 0 - 1

\* no argument record yet
NoArgs == [check_only |-> FALSE, mode |-> "auto", force |-> FALSE, isatty |-> FALSE]

\* the updater before auto_update is called
UpdaterIdle ==
    /\ updater_json = <<>>
    /\ now = 0
    /\ uticks = 0
    /\ ucalls = 0
    /\ upc = "idle"
    /\ uargs = NoArgs
    /\ perform = [security |-> FALSE, feature |-> FALSE]
    /\ ucfg = <<>>
    /\ release = <<>>
    /\ contacted = 0
    /\ downloads = 0
    /\ install_dir = Absent
    /\ backup_dir = Absent
    /\ atCall = <<>>
    /\ autoResult = ""

\* no PerformanceCache has been made
CacheIdle ==
    /\ cache = <<>>
    /\ pclock = 0
    /\ phist = <<>>
    /\ got = <<>>

\* no function has been wrapped by cached()
CachedIdle ==
    /\ wrapped = <<>>
    /\ dclock = 0
    /\ runs = <<>>
    /\ dret = <<>>

\* no PerformanceBenchmark has been made
BenchmarkIdle ==
    /\ start_times = <<>>
    /\ metrics = <<>>
    /\ bclock = 0
    /\ bhist = <<>>
    /\ ended = <<>>

PerfIdle == CacheIdle /\ CachedIdle /\ BenchmarkIdle

\* the components added after the catalog are idle
LaterIdle == WineIdle /\ UpdaterIdle /\ PerfIdle

\* every component other than the resolver and the installer is idle
OthersIdle == EnvIdle /\ RegIdle /\ CatalogIdle /\ LaterIdle

\* how many WineManager methods one behaviour calls
MaxCalls == 3

\* how many PerformanceCache methods one behaviour calls, and how many hours
\* pass
MaxOps == 3

MaxHours == 2

\* how many PerformanceBenchmark methods one behaviour calls
MaxTimings == 4

\* how many times one behaviour calls auto_update, and advances the clock
MaxUpdates == 2

MaxTicks == 2

(***************************************************************************)
(* Helpers                                                                 *)
(***************************************************************************)
Range(s) == {s[i] : i \in 1..Len(s)}

SeqsUpTo(S, n) == UNION {[1..k -> S] : k \in 0..n}

\* every order in which a set object over S can yield its members
Perms(S) == {p \in [1..Cardinality(S) -> S] : Range(p) = S}

(***************************************************************************)
(* suggest_installation_order                                              *)
(***************************************************************************)
\* the table at ai_assistant.py:510-520
BuiltinDeps ==
    [k \in {"dotnet48", "vcrun2019", "office", "visio", "sharepoint",
            "powerbi", "tableau", "quickbooks", "turbotax"} |->
        CASE k = "office"     -> <<"dotnet48", "vcrun2019">>
          [] k = "visio"      -> <<"office">>
          [] k = "sharepoint" -> <<"office">>
          [] k = "powerbi"    -> <<"dotnet48">>
          [] k = "tableau"    -> <<"dotnet48">>
          [] k = "quickbooks" -> <<"dotnet48">>
          [] k = "turbotax"   -> <<"dotnet48">>
          [] OTHER            -> << >>]

\* deps.get(app, [])
DepsGet(d, app) == IF app \in DOMAIN d THEN d[app] ELSE << >>

\* set(apps)
SetOf(l) == Range(l)

\* list(remaining): the members of the set in the order the set object yields them
ListOf(order, rem) == SelectSeq(order, LAMBDA x : x \in rem)

Eligible_NoCheck(d, app, ord, rem) == TRUE

Eligible_OrderedOnly(d, app, ord, rem) ==
    \A i \in 1..Len(DepsGet(d, app)) : DepsGet(d, app)[i] \in Range(ord)

Eligible_SkipFirst(d, app, ord, rem) ==
    \A i \in 2..Len(DepsGet(d, app)) :
        DepsGet(d, app)[i] \in Range(ord) \/ DepsGet(d, app)[i] \notin rem

\* all(d in ordered or d not in remaining for d in app_deps)
Eligible(d, app, ord, rem) ==
    \A i \in 1..Len(DepsGet(d, app)) :
        DepsGet(d, app)[i] \in Range(ord) \/ DepsGet(d, app)[i] \notin rem

\* no installer is running
InstallIdle ==
    /\ appKey = None
    /\ pathExists = FALSE
    /\ isRoot = FALSE
    /\ pkgMgr = None
    /\ ipc = "idle"
    /\ di = 1
    /\ running = {}
    /\ started = << >>
    /\ calls = << >>
    /\ failed = {}
    /\ result = None

\* no resolution is running
ResolverIdle ==
    /\ deps = BuiltinDeps
    /\ apps = << >>
    /\ iterOrder = << >>
    /\ ordered = << >>
    /\ remaining = {}
    /\ snap = << >>
    /\ idx = 0
    /\ rpc = "idle"
    /\ prev = None

\* the state right after `ordered = []; remaining = set(apps)`
Enter(d, l, o, p) ==
    /\ deps = d
    /\ apps = l
    /\ iterOrder = o
    /\ ordered = << >>
    /\ remaining = SetOf(l)
    /\ snap = << >>
    /\ idx = 0
    /\ rpc = "while"
    /\ prev = p

InitResolver ==
    /\ \E l \in SeqsUpTo(RequestKeys, MaxApps) :
          \E o \in Perms(SetOf(l)) : Enter(BuiltinDeps, l, o, None)
    /\ InstallIdle
    /\ OthersIdle

\* `while remaining:` and, when it holds, `for app in list(remaining):`
WhileTest ==
    /\ rpc = "while"
    /\ IF remaining # {}
       THEN /\ snap' = ListOf(iterOrder, remaining)
            /\ idx' = 1
            /\ rpc' = "for"
       ELSE /\ rpc' = "done"
            /\ UNCHANGED <<snap, idx>>
    /\ UNCHANGED <<deps, apps, iterOrder, ordered, remaining, prev>>
    /\ UNCHANGED <<ivars, xvars>>

\* one iteration of the for loop whose `if` holds
ForAppend ==
    /\ rpc = "for"
    /\ idx <= Len(snap)
    /\ Eligible(deps, snap[idx], ordered, remaining)
    /\ ordered' = Append(ordered, snap[idx])
    /\ remaining' = remaining \ {snap[idx]}
    /\ idx' = idx + 1
    /\ rpc' = IF idx = Len(snap) THEN "while" ELSE "for"
    /\ UNCHANGED <<deps, apps, iterOrder, snap, prev>>
    /\ UNCHANGED <<ivars, xvars>>

\* one iteration of the for loop whose `if` fails
ForSkip ==
    /\ rpc = "for"
    /\ idx <= Len(snap)
    /\ ~Eligible(deps, snap[idx], ordered, remaining)
    /\ idx' = idx + 1
    /\ rpc' = IF idx = Len(snap) THEN "while" ELSE "for"
    /\ UNCHANGED <<deps, apps, iterOrder, ordered, remaining, snap, prev>>
    /\ UNCHANGED <<ivars, xvars>>

\* `return ordered`, and the caller resolving the same request once more. The
\* new set object may yield the keys in another order: the order follows the
\* string hashes, which differ from one interpreter run to the next, and the
\* order in which colliding keys were inserted.
ResolveAgain ==
    /\ rpc = "done"
    /\ iterOrder' \in Perms(SetOf(apps))
    /\ prev' = ordered
    /\ ordered' = << >>
    /\ remaining' = SetOf(apps)
    /\ snap' = << >>
    /\ idx' = 0
    /\ rpc' = "while"
    /\ UNCHANGED <<deps, apps>>
    /\ UNCHANGED <<ivars, xvars>>

ResolverNext == WhileTest \/ ForAppend \/ ForSkip \/ ResolveAgain

SpecResolver == InitResolver /\ [][ResolverNext]_vars

\* one call of the resolver, run to its return: the loop keeps being scheduled
ResolverOnce == WhileTest \/ ForAppend \/ ForSkip

SpecResolverFair ==
    InitResolver /\ [][ResolverOnce]_vars /\ WF_vars(ResolverOnce)

(***************************************************************************)
(* The same loop run on a synthetic prerequisite table, as the spec's      *)
(* cycle test does: {a: {b}, b: {a}} and a three-key cycle.                *)
(***************************************************************************)
SyntheticGraphs ==
    { [k \in {"a", "b"} |-> IF k = "a" THEN <<"b">> ELSE <<"a">>],
      [k \in {"a", "b", "c"} |->
          CASE k = "a" -> <<"b">> [] k = "b" -> <<"c">> [] OTHER -> <<"a">>] }

InitSynthetic ==
    /\ \E g \in SyntheticGraphs :
          \E l \in SeqsUpTo(SyntheticKeys, MaxApps) :
              \E o \in Perms(SetOf(l)) : Enter(g, l, o, None)
    /\ InstallIdle
    /\ OthersIdle

SpecSynthetic == InitSynthetic /\ [][ResolverNext]_vars

(***************************************************************************)
(* Properties of the resolver                                              *)
(***************************************************************************)
\* a for loop has just ended
PassEnded == rpc = "while" /\ snap # << >>

\* the table, restricted to the requested keys, has a cycle
CycleInRequest ==
    \E S \in SUBSET SetOf(apps) :
        /\ S # {}
        /\ \A k \in S : Range(DepsGet(deps, k)) \cap S # {}

\* C1: whenever a key E is in the output and D is a prerequisite of E that was
\* requested too, D is in the output at a strictly smaller index than E.
C1_PrerequisiteFirst ==
    \A j \in 1..Len(ordered) :
        \A D \in Range(DepsGet(deps, ordered[j])) \cap SetOf(apps) :
            \E i \in 1..(j - 1) : ordered[i] = D

\* C1 witness: a finished resolution of office with both of its prerequisites,
\* where the set yielded office first, so that a pass had to skip it
C1_Witness ==
    /\ rpc = "done"
    /\ SetOf(apps) = {"dotnet48", "vcrun2019", "office"}
    /\ iterOrder[1] = "office"
    /\ ordered[3] = "office"

C3_SameOrderTwice ==
    (rpc = "done" /\ prev # None) => ordered = prev

\* C4: the output never holds a key twice nor a key that was not requested,
\* output and remaining set partition the request, the finished output holds
\* every requested key, and a visited key whose requested prerequisites are
\* all in the output is moved to the output (a prerequisite outside the
\* request does not block it).
C4_StateOk ==
    /\ Range(ordered) \cup remaining = SetOf(apps)
    /\ Range(ordered) \cap remaining = {}
    /\ Len(ordered) = Cardinality(Range(ordered))
    /\ rpc = "done" => Range(ordered) = SetOf(apps)

C4_StepOk ==
    (/\ rpc = "for"
     /\ idx <= Len(snap)
     /\ Range(DepsGet(deps, snap[idx])) \cap SetOf(apps) \subseteq Range(ordered))
        => ordered' = Append(ordered, snap[idx])

C4_ExactlyRequested == [](C4_StateOk) /\ [][C4_StepOk]_vars

\* C4 witness: office was requested twice, without its prerequisites, next to a
\* key that has no entry in the table
C4_Witness ==
    /\ rpc = "done"
    /\ apps = <<"office", "photoshop", "office">>
    /\ Len(ordered) = 2

\* C5: with the built-in table every pass moves at least one key, and every
\* resolution reaches its return.
C5_Terminates ==
    /\ [](PassEnded => remaining # Range(snap))
    /\ <>(rpc = "done")

\* C5 witness: a second pass was needed and the resolution finished
C5_Witness ==
    /\ rpc = "done"
    /\ "photoshop" \in SetOf(apps)
    /\ Len(snap) = 1
    /\ Len(ordered) = 3

\* C6: a request of exactly office and visio resolves to [office, visio].
C6_OfficeThenVisio ==
    (rpc = "done" /\ SetOf(apps) = {"office", "visio"})
        => ordered = <<"office", "visio">>

\* C6 witness: visio was supplied first and the set yielded visio first
C6_Witness ==
    /\ rpc = "done"
    /\ apps = <<"visio", "office">>
    /\ iterOrder = <<"visio", "office">>
    /\ ordered = <<"office", "visio">>

(***************************************************************************)
(* The catalog: ApplicationManager.APPLICATIONS and the CONFIG of each     *)
(* installer class (src/src/installers/app_installers.py)                  *)
(***************************************************************************)
\* ApplicationManager.APPLICATIONS: catalog key -> installer class
InstallerClass ==
       "premiere"       :> "AdobePremiereInstaller"
    @@ "vegas"          :> "SonyVegasInstaller"
    @@ "3dsmax"         :> "Autodesk3DSMaxInstaller"
    @@ "office"         :> "MicrosoftOfficeInstaller"
    @@ "audition"       :> "AdobeAuditionInstaller"
    @@ "cubase"         :> "CubaseNuendoInstaller"
    @@ "ableton"        :> "ABLETONLiveInstaller"
    @@ "protools"       :> "ProToolsInstaller"
    @@ "reason"         :> "PropellerheadsReasonInstaller"
    @@ "autocad"        :> "AutodeskAutoCADInstaller"
    @@ "solidworks"     :> "SolidWorksInstaller"
    @@ "fusion360"      :> "FusionInstaller"
    @@ "arcgis"         :> "ArcGISInstaller"
    @@ "photoshop"      :> "AdobePhotoshopInstaller"
    @@ "lightroom"      :> "AdobeLightroomInstaller"
    @@ "illustrator"    :> "AdobeIllustratorInstaller"
    @@ "aftereffects"   :> "AdobeAfterEffectsInstaller"
    @@ "indesign"       :> "AdobeInDesignInstaller"
    @@ "revit"          :> "AutodeskRevitInstaller"
    @@ "sketchbook"     :> "AutodeskSketchbookInstaller"
    @@ "3dprinting"     :> "PrusaSlicerInstaller"
    @@ "superslicer"    :> "SuperSlicerInstaller"
    @@ "coreldraw"      :> "CorelDrawInstaller"
    @@ "corelpainter"   :> "CorelPaintInstaller"
    @@ "teams"          :> "MicrosoftTeamsInstaller"
    @@ "copilot"        :> "MicrosoftCopilotInstaller"
    @@ "access"         :> "MicrosoftAccessInstaller"
    @@ "visio"          :> "VisioInstaller"
    @@ "sharepoint"     :> "SharePointInstaller"
    @@ "powerbi"        :> "PowerBIInstaller"
    @@ "visualstudio"   :> "VisualStudioInstaller"
    @@ "jetbrains"      :> "JetBrainsIDEInstaller"
    @@ "notepad++"      :> "NoteplusPlusInstaller"
    @@ "paintnet"       :> "PaintNetInstaller"
    @@ "figma"          :> "FigmaInstaller"
    @@ "unity"          :> "UnityInstaller"
    @@ "unreal"         :> "UnrealEngineInstaller"
    @@ "eaapp"          :> "EAAppInstaller"
    @@ "quickbooks"     :> "QuickBooksInstaller"
    @@ "turbotax"       :> "TurboTaxInstaller"
    @@ "tableau"        :> "TableauInstaller"
    @@ "itunes"         :> "iTunesInstaller"
    @@ "dropbox"        :> "DropboxInstaller"
    @@ "googledrive"    :> "GoogleDriveInstaller"
    @@ "wordpress"      :> "WordPressInstaller"
    @@ "notion"         :> "NotionInstaller"
    @@ "grammarly"      :> "GrammarlyInstaller"
    @@ "virtualdub"     :> "VirtualDubInstaller"
    @@ "avisynth"       :> "AviSynthInstaller"
    @@ "vobsub"         :> "VobSubInstaller"
    @@ "valorant"       :> "ValorantInstaller"
    @@ "r6siege"        :> "Rainbow6SiegeInstaller"
    @@ "battleye"       :> "BattlEyeInstaller"
    @@ "sharex"         :> "ShareXInstaller"
    @@ "hwmonitor"      :> "HWMonitorInstaller"

\* the shape of the body of each class's install method (see StepsOf)
InstallForm ==
       "premiere"       :> "packages"
    @@ "vegas"          :> "packages"
    @@ "3dsmax"         :> "packages"
    @@ "office"         :> "packages"
    @@ "audition"       :> "apt"
    @@ "cubase"         :> "dlls"
    @@ "ableton"        :> "apt"
    @@ "protools"       :> "dlls"
    @@ "reason"         :> "dlls"
    @@ "autocad"        :> "apt"
    @@ "solidworks"     :> "apt"
    @@ "fusion360"      :> "apt"
    @@ "arcgis"         :> "dlls"
    @@ "photoshop"      :> "packages"
    @@ "lightroom"      :> "packages"
    @@ "illustrator"    :> "packages"
    @@ "aftereffects"   :> "packages"
    @@ "indesign"       :> "dlls"
    @@ "revit"          :> "packages"
    @@ "sketchbook"     :> "packages"
    @@ "3dprinting"     :> "dlls"
    @@ "superslicer"    :> "dlls"
    @@ "coreldraw"      :> "packages"
    @@ "corelpainter"   :> "packages"
    @@ "teams"          :> "packages"
    @@ "copilot"        :> "packages"
    @@ "access"         :> "packages"
    @@ "visio"          :> "dlls"
    @@ "sharepoint"     :> "dlls"
    @@ "powerbi"        :> "dlls"
    @@ "visualstudio"   :> "apt"
    @@ "jetbrains"      :> "apt"
    @@ "notepad++"      :> "dlls"
    @@ "paintnet"       :> "dlls"
    @@ "figma"          :> "none"
    @@ "unity"          :> "apt"
    @@ "unreal"         :> "apt"
    @@ "eaapp"          :> "dlls"
    @@ "quickbooks"     :> "dlls"
    @@ "turbotax"       :> "dlls"
    @@ "tableau"        :> "dlls"
    @@ "itunes"         :> "dlls"
    @@ "dropbox"        :> "dlls"
    @@ "googledrive"    :> "none"
    @@ "wordpress"      :> "none"
    @@ "notion"         :> "none"
    @@ "grammarly"      :> "none"
    @@ "virtualdub"     :> "dlls"
    @@ "avisynth"       :> "dlls"
    @@ "vobsub"         :> "none"
    @@ "valorant"       :> "dlls_false"
    @@ "r6siege"        :> "dlls"
    @@ "battleye"       :> "dlls"
    @@ "sharex"         :> "dlls"
    @@ "hwmonitor"      :> "none"

\* CONFIG.required_dlls of each class
RequiredDlls ==
       "premiere"       :> <<"dotnet48", "d3dx9", "d3dx10", "d3dx11", "corefonts">>
    @@ "vegas"          :> <<"dotnet48", "d3dx9", "d3dx11", "corefonts", "vcrun2019">>
    @@ "3dsmax"         :> <<"dotnet48", "d3dx9", "d3dx10", "d3dx11", "d3dx12", "vcrun2019", "corefonts">>
    @@ "office"         :> <<"dotnet48", "corefonts", "vcrun2019", "vb6run">>
    @@ "audition"       :> <<"dotnet48", "d3dx9", "d3dx11", "corefonts", "vcrun2019">>
    @@ "cubase"         :> <<"dotnet48", "vcrun2019">>
    @@ "ableton"        :> <<"dotnet48", "d3dx9", "d3dx11", "corefonts", "vcrun2019">>
    @@ "protools"       :> <<"dotnet48", "vcrun2019">>
    @@ "reason"         :> <<"dotnet48", "vcrun2019">>
    @@ "autocad"        :> <<"dotnet48", "d3dx9", "d3dx10", "d3dx11", "d3dx12", "vcrun2019", "corefonts">>
    @@ "solidworks"     :> <<"dotnet48", "d3dx9", "d3dx10", "d3dx11", "d3dx12", "vcrun2019", "corefonts">>
    @@ "fusion360"      :> <<"dotnet48", "d3dx9", "d3dx10", "d3dx11", "d3dx12", "vcrun2019", "corefonts">>
    @@ "arcgis"         :> <<"dotnet48", "vcrun2019">>
    @@ "photoshop"      :> <<"dotnet48", "d3dx9", "d3dx11", "corefonts", "vcrun2019">>
    @@ "lightroom"      :> <<"dotnet48", "d3dx9", "d3dx11", "corefonts", "vcrun2019">>
    @@ "illustrator"    :> <<"dotnet48", "d3dx9", "d3dx11", "corefonts", "vcrun2019">>
    @@ "aftereffects"   :> <<"dotnet48", "d3dx9", "d3dx10", "d3dx11", "d3dx12", "corefonts", "vcrun2019">>
    @@ "indesign"       :> <<"vcrun2019", "dotnet48">>
    @@ "revit"          :> <<"dotnet48", "d3dx9", "d3dx10", "d3dx11", "d3dx12", "vcrun2019", "corefonts">>
    @@ "sketchbook"     :> <<"dotnet48", "d3dx9", "d3dx11", "corefonts", "vcrun2019">>
    @@ "3dprinting"     :> <<"vcrun2019">>
    @@ "superslicer"    :> <<"vcrun2019">>
    @@ "coreldraw"      :> <<"dotnet48", "d3dx9", "d3dx11", "corefonts", "vcrun2019">>
    @@ "corelpainter"   :> <<"dotnet48", "d3dx9", "d3dx11", "corefonts", "vcrun2019">>
    @@ "teams"          :> <<"dotnet48", "corefonts", "vcrun2019">>
    @@ "copilot"        :> <<"dotnet48", "corefonts">>
    @@ "access"         :> <<"dotnet48", "corefonts", "vcrun2019", "vb6run">>
    @@ "visio"          :> <<"dotnet48">>
    @@ "sharepoint"     :> <<"dotnet48">>
    @@ "powerbi"        :> <<"dotnet48">>
    @@ "visualstudio"   :> <<"dotnet48", "dotnet462", "vcrun2019", "corefonts">>
    @@ "jetbrains"      :> <<"dotnet48", "vcrun2019", "corefonts">>
    @@ "notepad++"      :> <<"dotnet48">>
    @@ "paintnet"       :> <<"dotnet48">>
    @@ "figma"          :> <<>>
    @@ "unity"          :> <<"dotnet48", "d3dx9", "d3dx10", "d3dx11", "d3dx12", "vcrun2019", "corefonts">>
    @@ "unreal"         :> <<"dotnet48", "d3dx9", "d3dx10", "d3dx11", "d3dx12", "vcrun2019", "corefonts">>
    @@ "eaapp"          :> <<"dotnet48", "vcrun2019">>
    @@ "quickbooks"     :> <<"dotnet48", "vcrun2019">>
    @@ "turbotax"       :> <<"dotnet48", "vcrun2019">>
    @@ "tableau"        :> <<"dotnet48">>
    @@ "itunes"         :> <<"dotnet48", "vcrun2019">>
    @@ "dropbox"        :> <<"vcrun2019">>
    @@ "googledrive"    :> <<>>
    @@ "wordpress"      :> <<>>
    @@ "notion"         :> <<>>
    @@ "grammarly"      :> <<>>
    @@ "virtualdub"     :> <<"vcrun2019">>
    @@ "avisynth"       :> <<"vcrun2019">>
    @@ "vobsub"         :> <<>>
    @@ "valorant"       :> <<"vcrun2019", "dxvk">>
    @@ "r6siege"        :> <<"vcrun2019", "dxvk">>
    @@ "battleye"       :> <<"vcrun2019">>
    @@ "sharex"         :> <<"dotnet48">>
    @@ "hwmonitor"      :> <<>>

\* CONFIG.required_dependencies of each class
RequiredDependencies ==
       "premiere"       :> <<"libssl-dev", "libxss1", "libappindicator1">>
    @@ "vegas"          :> <<"libssl-dev", "libxss1">>
    @@ "3dsmax"         :> <<"libssl-dev", "libx11-6", "libxext6", "libxrender1">>
    @@ "office"         :> <<"libssl-dev">>
    @@ "audition"       :> <<"libpulse-dev", "libasound2-dev", "libsndfile1-dev">>
    @@ "cubase"         :> <<"dotnet48", "vcrun2019">>
    @@ "ableton"        :> <<"libpulse-dev", "libasound2-dev", "jackd">>
    @@ "protools"       :> <<"dotnet48", "vcrun2019">>
    @@ "reason"         :> <<"dotnet48", "vcrun2019">>
    @@ "autocad"        :> <<"libssl-dev", "libx11-6", "libxext6", "libxrender1">>
    @@ "solidworks"     :> <<"libssl-dev", "libx11-6", "libxext6">>
    @@ "fusion360"      :> <<"libssl-dev", "libx11-6">>
    @@ "arcgis"         :> <<"dotnet48", "vcrun2019">>
    @@ "photoshop"      :> <<"libssl-dev", "libx11-6", "libxext6">>
    @@ "lightroom"      :> <<"libssl-dev", "libx11-6">>
    @@ "illustrator"    :> <<"libssl-dev", "libx11-6", "libxext6">>
    @@ "aftereffects"   :> <<"libssl-dev", "libx11-6", "libxext6">>
    @@ "indesign"       :> <<"vcrun2019", "dotnet48">>
    @@ "revit"          :> <<"libssl-dev", "libx11-6", "libxext6">>
    @@ "sketchbook"     :> <<"libssl-dev", "libx11-6">>
    @@ "3dprinting"     :> <<"vcrun2019">>
    @@ "superslicer"    :> <<"vcrun2019">>
    @@ "coreldraw"      :> <<"libssl-dev", "libx11-6", "libxext6">>
    @@ "corelpainter"   :> <<"libssl-dev", "libx11-6">>
    @@ "teams"          :> <<"libssl-dev", "libx11-6">>
    @@ "copilot"        :> <<"libssl-dev">>
    @@ "access"         :> <<"libssl-dev">>
    @@ "visio"          :> <<"dotnet48">>
    @@ "sharepoint"     :> <<"dotnet48">>
    @@ "powerbi"        :> <<"dotnet48">>
    @@ "visualstudio"   :> <<"libssl-dev", "libxml2-dev">>
    @@ "jetbrains"      :> <<"openjdk-17-jdk", "libssl-dev">>
    @@ "notepad++"      :> <<"dotnet48">>
    @@ "paintnet"       :> <<"dotnet48">>
    @@ "figma"          :> <<>>
    @@ "unity"          :> <<"libssl-dev", "libx11-6">>
    @@ "unreal"         :> <<"libssl-dev", "libx11-6">>
    @@ "eaapp"          :> <<"dotnet48", "vcrun2019">>
    @@ "quickbooks"     :> <<"dotnet48", "vcrun2019">>
    @@ "turbotax"       :> <<"dotnet48", "vcrun2019">>
    @@ "tableau"        :> <<"dotnet48">>
    @@ "itunes"         :> <<"dotnet48", "vcrun2019">>
    @@ "dropbox"        :> <<"vcrun2019">>
    @@ "googledrive"    :> <<>>
    @@ "wordpress"      :> <<>>
    @@ "notion"         :> <<>>
    @@ "grammarly"      :> <<>>
    @@ "virtualdub"     :> <<"vcrun2019">>
    @@ "avisynth"       :> <<"vcrun2019">>
    @@ "vobsub"         :> <<>>
    @@ "valorant"       :> <<"vcrun2019", "dxvk">>
    @@ "r6siege"        :> <<"vcrun2019", "dxvk">>
    @@ "battleye"       :> <<"vcrun2019">>
    @@ "sharex"         :> <<"dotnet48">>
    @@ "hwmonitor"      :> <<>>

CatalogKeys == DOMAIN InstallerClass

\* the package managers get_package_manager can return
PkgMgrs == {"apt", "apt-get"}

(***************************************************************************)
(* install                                                                 *)
(***************************************************************************)
\* the steps in the body of install, in source order, for each shape:
\*   "packages"   DistroUtils.install_packages, install_required_dlls,
\*                configure_registry, run_with_wine        (e.g. lines 130-154)
\*   "apt"        a `sudo apt install -y <dep>` per dependency, then the same
\*                three calls                              (e.g. lines 336-354)
\*   "dlls"       install_required_dlls only; returns True  (e.g. 1244-1251)
\*   "dlls_false" install_required_dlls only; returns False (1889-1897)
\*   "none"       no call                                   (e.g. 1337-1343)
StepsOf(form) ==
    CASE form \in {"packages", "apt"} -> <<"deps", "dlls", "registry", "vendor">>
      [] form \in {"dlls", "dlls_false"} -> <<"dlls">>
      [] OTHER -> << >>

\* the statement that follows a step in the body
NextPc(form, step) ==
    LET body == StepsOf(form)
        i == CHOOSE n \in 1..Len(body) : body[n] = step
    IN  IF i < Len(body) THEN body[i + 1] ELSE "return"

FirstPc(form) == IF StepsOf(form) = << >> THEN "return" ELSE StepsOf(form)[1]

MayProceed_NoWait(run) == TRUE

\* subprocess.run returns only after the child has exited: the statement after
\* it runs when no child is left
MayProceed(run) == run = {}

ReturnValue_AllOk(form, f) == f = {}

\* the value at the end of the try block: `return True`, and `return False` in
\* ValorantInstaller, whatever the steps did
ReturnValue(form, f) == form # "dlls_false"

\* the command line DistroUtils.install_packages builds
PackagesCmd(mgr, root, pkgs) ==
    (IF root THEN << >> ELSE <<"sudo">>) \o <<mgr, "install", "-y">> \o pkgs

Mark(st, step) == IF step \in Range(st) THEN st ELSE Append(st, step)

InitInstall ==
    /\ \E k \in CatalogKeys : appKey = k
    /\ pathExists \in BOOLEAN
    /\ isRoot \in BOOLEAN
    /\ pkgMgr \in PkgMgrs
    /\ ipc = "call"
    /\ di = 1
    /\ running = {}
    /\ started = << >>
    /\ calls = << >>
    /\ failed = {}
    /\ result = None
    /\ ResolverIdle
    /\ OthersIdle

\* install is entered: the try block begins
InstallEnter ==
    /\ ipc = "call"
    /\ ipc' = FirstPc(InstallForm[appKey])
    /\ UNCHANGED <<appKey, pathExists, isRoot, pkgMgr, di, running, started,
                   calls, failed, result>>
    /\ UNCHANGED <<rvars, xvars>>

\* DistroUtils.install_packages(required_dependencies): one package-manager
\* command for the whole list; an exception of subprocess.run is caught inside
PackagesInstall ==
    /\ ipc = "deps"
    /\ InstallForm[appKey] = "packages"
    /\ MayProceed(running)
    /\ started' = Mark(started, "deps")
    /\ ipc' = NextPc(InstallForm[appKey], "deps")
    /\ IF RequiredDependencies[appKey] = << >>
       THEN UNCHANGED <<calls, running, failed>>
       ELSE LET cmd == PackagesCmd(pkgMgr, isRoot, RequiredDependencies[appKey])
            IN  /\ calls' = Append(calls, cmd)
                /\ \/ /\ running' = running \cup {[step |-> "deps", cmd |-> cmd]}
                      /\ UNCHANGED failed
                   \/ /\ failed' = failed \cup {"deps"}
                      /\ UNCHANGED running
    /\ UNCHANGED <<appKey, pathExists, isRoot, pkgMgr, di, result>>
    /\ UNCHANGED <<rvars, xvars>>

\* one iteration of `for dep in required_dependencies: subprocess.run([sudo,
\* apt, install, -y, dep])` in the body of install: an exception of
\* subprocess.run reaches the except clause of install
AptInstall ==
    /\ ipc = "deps"
    /\ InstallForm[appKey] = "apt"
    /\ MayProceed(running)
    /\ di <= Len(RequiredDependencies[appKey])
    /\ started' = Mark(started, "deps")
    /\ LET cmd == <<"sudo", "apt", "install", "-y", RequiredDependencies[appKey][di]>>
       IN  /\ calls' = Append(calls, cmd)
           /\ \/ /\ running' = running \cup {[step |-> "deps", cmd |-> cmd]}
                 /\ di' = di + 1
                 /\ UNCHANGED <<ipc, failed>>
              \/ /\ failed' = failed \cup {"deps"}
                 /\ ipc' = "except"
                 /\ UNCHANGED <<running, di>>
    /\ UNCHANGED <<appKey, pathExists, isRoot, pkgMgr, result>>
    /\ UNCHANGED <<rvars, xvars>>

\* the end of that for loop
AptDone ==
    /\ ipc = "deps"
    /\ InstallForm[appKey] = "apt"
    /\ MayProceed(running)
    /\ di > Len(RequiredDependencies[appKey])
    /\ started' = Mark(started, "deps")
    /\ di' = 1
    /\ ipc' = NextPc(InstallForm[appKey], "deps")
    /\ UNCHANGED <<appKey, pathExists, isRoot, pkgMgr, running, calls, failed, result>>
    /\ UNCHANGED <<rvars, xvars>>

\* install_required_dlls, one iteration of `for dll in dlls:`; the try block
\* encloses the loop, so an exception of subprocess.run ends the method
DllInvoke ==
    /\ ipc = "dlls"
    /\ MayProceed(running)
    /\ di <= Len(RequiredDlls[appKey])
    /\ started' = Mark(started, "dlls")
    /\ LET cmd == <<"winetricks", RequiredDlls[appKey][di]>>
       IN  /\ calls' = Append(calls, cmd)
           /\ \/ /\ running' = running \cup {[step |-> "dlls", cmd |-> cmd]}
                 /\ di' = di + 1
                 /\ UNCHANGED <<ipc, failed>>
              \/ /\ failed' = failed \cup {"dlls"}
                 /\ ipc' = NextPc(InstallForm[appKey], "dlls")
                 /\ di' = 1
                 /\ UNCHANGED running
    /\ UNCHANGED <<appKey, pathExists, isRoot, pkgMgr, result>>
    /\ UNCHANGED <<rvars, xvars>>

\* install_required_dlls, the end of the loop: `return True`
DllDone ==
    /\ ipc = "dlls"
    /\ MayProceed(running)
    /\ di > Len(RequiredDlls[appKey])
    /\ started' = Mark(started, "dlls")
    /\ di' = 1
    /\ ipc' = NextPc(InstallForm[appKey], "dlls")
    /\ UNCHANGED <<appKey, pathExists, isRoot, pkgMgr, running, calls, failed, result>>
    /\ UNCHANGED <<rvars, xvars>>

\* configure_registry, writing tweaks.reg: an exception of open or write is
\* caught inside and ends the method
RegistryWrite ==
    /\ ipc = "registry"
    /\ MayProceed(running)
    /\ started' = Mark(started, "registry")
    /\ \/ /\ ipc' = "regedit"
          /\ UNCHANGED failed
       \/ /\ failed' = failed \cup {"registry"}
          /\ ipc' = NextPc(InstallForm[appKey], "registry")
    /\ UNCHANGED <<appKey, pathExists, isRoot, pkgMgr, di, running, calls, result>>
    /\ UNCHANGED <<rvars, xvars>>

\* configure_registry, `subprocess.run(['regedit', reg_file])`
RegeditInvoke ==
    /\ ipc = "regedit"
    /\ MayProceed(running)
    /\ LET cmd == <<"regedit", "tweaks.reg">>
       IN  /\ calls' = Append(calls, cmd)
           /\ \/ /\ running' = running \cup {[step |-> "registry", cmd |-> cmd]}
                 /\ UNCHANGED failed
              \/ /\ failed' = failed \cup {"registry"}
                 /\ UNCHANGED running
    /\ ipc' = NextPc(InstallForm[appKey], "registry")
    /\ UNCHANGED <<appKey, pathExists, isRoot, pkgMgr, di, started, result>>
    /\ UNCHANGED <<rvars, xvars>>

\* `if os.path.exists(installer_path): self.run_with_wine(installer_path)`;
\* an exception of subprocess.run is caught inside run_with_wine
VendorRun ==
    /\ ipc = "vendor"
    /\ MayProceed(running)
    /\ pathExists
    /\ started' = Mark(started, "vendor")
    /\ LET cmd == <<"wine", "installer_path">>
       IN  /\ calls' = Append(calls, cmd)
           /\ \/ /\ running' = running \cup {[step |-> "vendor", cmd |-> cmd]}
                 /\ UNCHANGED failed
              \/ /\ failed' = failed \cup {"vendor"}
                 /\ UNCHANGED running
    /\ ipc' = NextPc(InstallForm[appKey], "vendor")
    /\ UNCHANGED <<appKey, pathExists, isRoot, pkgMgr, di, result>>
    /\ UNCHANGED <<rvars, xvars>>

\* the same `if`, on a path that does not exist
VendorSkip ==
    /\ ipc = "vendor"
    /\ MayProceed(running)
    /\ ~pathExists
    /\ ipc' = NextPc(InstallForm[appKey], "vendor")
    /\ UNCHANGED <<appKey, pathExists, isRoot, pkgMgr, di, running, started,
                   calls, failed, result>>
    /\ UNCHANGED <<rvars, xvars>>

\* a child process exits, with status 0 or not (check=False: no exception)
ProcExit ==
    /\ \E p \in running : \E rc \in {0, 1} :
         /\ running' = running \ {p}
         /\ failed' = IF rc = 0 THEN failed ELSE failed \cup {p.step}
    /\ UNCHANGED <<appKey, pathExists, isRoot, pkgMgr, ipc, di, started, calls, result>>
    /\ UNCHANGED <<rvars, xvars>>

\* the return at the end of the try block
InstallReturn ==
    /\ ipc = "return"
    /\ MayProceed(running)
    /\ result' = ReturnValue(InstallForm[appKey], failed)
    /\ ipc' = "done"
    /\ UNCHANGED <<appKey, pathExists, isRoot, pkgMgr, di, running, started,
                   calls, failed>>
    /\ UNCHANGED <<rvars, xvars>>

\* `except Exception as e: ... return False` of install
InstallExcept ==
    /\ ipc = "except"
    /\ result' = FALSE
    /\ ipc' = "done"
    /\ UNCHANGED <<appKey, pathExists, isRoot, pkgMgr, di, running, started,
                   calls, failed>>
    /\ UNCHANGED <<rvars, xvars>>

InstallNext ==
    \/ InstallEnter
    \/ PackagesInstall
    \/ AptInstall
    \/ AptDone
    \/ DllInvoke
    \/ DllDone
    \/ RegistryWrite
    \/ RegeditInvoke
    \/ VendorRun
    \/ VendorSkip
    \/ ProcExit
    \/ InstallReturn
    \/ InstallExcept

SpecInstall == InitInstall /\ [][InstallNext]_vars

(***************************************************************************)
(* Properties of install                                                   *)
(***************************************************************************)
\* the steps this call of install has to attempt: the steps of its body, the
\* vendor installer only when the installer path exists
ExpectedSteps ==
    {st \in Range(StepsOf(InstallForm[appKey])) : st = "vendor" => pathExists}

AllAttempted == ExpectedSteps \subseteq Range(started)

StepRank(st) ==
    CASE st = "deps" -> 1 [] st = "dlls" -> 2 [] st = "registry" -> 3 [] OTHER -> 4

\* the arguments of the winetricks invocations made so far, in order
WinetricksArgs ==
    LET w == SelectSeq(calls, LAMBDA c : c[1] = "winetricks")
    IN  [i \in 1..Len(w) |-> w[i][2]]

\* C7 (as claimed): when install has returned, every step of its body has been
\* attempted, whatever failed on the way.
C7_RemainingStepsAttempted ==
    ipc = "done" => AllAttempted

\* C8: the steps install has begun are in the order system dependencies, DLL
\* components, registry tweaks, vendor installer, and a child process that has
\* not exited belongs to the step begun last: at most one runs at a time.
C8_FixedOrder ==
    /\ \A i, j \in 1..Len(started) :
          i < j => StepRank(started[i]) < StepRank(started[j])
    /\ \A p \in running : p.step = started[Len(started)]
    /\ Cardinality(running) <= 1

\* C8 witness: the Teams installer ran all four steps and returned
C8_Witness ==
    /\ ipc = "done"
    /\ appKey = "teams"
    /\ started = <<"deps", "dlls", "registry", "vendor">>
    /\ Len(calls) = 6

\* C9 (as claimed): once install_required_dlls has returned, winetricks has
\* been invoked exactly once for each identifier of required_dlls, in list
\* order, whatever failed on the way.
C9_EachDllOnce ==
    ("dlls" \in Range(started) /\ ipc # "dlls")
        => WinetricksArgs = RequiredDlls[appKey]

\* C10 (as claimed): install returns True exactly when all of its steps were
\* attempted.
C10_TrueIffAttempted ==
    ipc = "done" => (result = TRUE <=> AllAttempted)

\* C10 (amended): for every class but ValorantInstaller, install returns True
\* exactly when all of its steps were attempted, whether or not a step
\* succeeded; ValorantInstaller.install returns False.
C10_TrueIffAttemptedButValorant ==
    ipc = "done" =>
        IF InstallerClass[appKey] = "ValorantInstaller"
        THEN result = FALSE
        ELSE result = TRUE <=> AllAttempted

\* C10 witness: all four steps of the Office installer were attempted, every
\* one of them failed, and install returned True
C10_Witness ==
    /\ ipc = "done"
    /\ appKey = "office"
    /\ failed = {"deps", "dlls", "registry", "vendor"}
    /\ started = <<"deps", "dlls", "registry", "vendor">>
    /\ result = TRUE

\* install has an installer_path parameter (the bodies with a vendor step)
PathSupplied == "vendor" \in Range(StepsOf(InstallForm[appKey]))

\* the vendor installer was handed to wine
VendorExecuted == \E i \in 1..Len(calls) : calls[i][1] = "wine"

\* C11 (as claimed): when install has returned, the vendor installer was
\* executed exactly if an installer path was supplied and the path exists, and
\* whenever it was executed install returned True, whatever its exit status.
C11_VendorIffPathExists ==
    ipc = "done" =>
        /\ VendorExecuted <=> (PathSupplied /\ pathExists)
        /\ VendorExecuted => result = TRUE

(***************************************************************************)
(* The environment of the processes Winpatable starts                      *)
(* (setup_environment, launch_application, launch_with_proton:             *)
(* scripts/launcher.py; ApplicationInstaller.run_with_wine)                *)
(***************************************************************************)
\* CONFIG.environment_variables of every catalog entry
EnvironmentVariables ==
    "premiere" :> ("DXVK_HUD" :> "off" @@ "PROTON_USE_WINED3D" :> "0") @@
    "vegas" :> ("DXVK_HUD" :> "off") @@
    "3dsmax" :> ("DXVK_HUD" :> "off" @@ "PROTON_USE_WINED3D" :> "0") @@
    "office" :> ("DXVK_HUD" :> "off") @@
    "audition" :> ("DXVK_HUD" :> "off" @@ "ALSA_CONFIG_DIR" :> "/etc/alsa") @@
    "cubase" :> <<>> @@
    "ableton" :> ("DXVK_HUD" :> "off") @@
    "protools" :> <<>> @@
    "reason" :> <<>> @@
    "autocad" :> ("DXVK_HUD" :> "off" @@ "PROTON_USE_WINED3D" :> "0") @@
    "solidworks" :> ("DXVK_HUD" :> "off" @@ "PROTON_USE_WINED3D" :> "0") @@
    "fusion360" :> ("DXVK_HUD" :> "off" @@ "PROTON_USE_WINED3D" :> "0") @@
    "arcgis" :> <<>> @@
    "photoshop" :> ("DXVK_HUD" :> "off") @@
    "lightroom" :> ("DXVK_HUD" :> "off") @@
    "illustrator" :> ("DXVK_HUD" :> "off") @@
    "aftereffects" :> ("DXVK_HUD" :> "off" @@ "PROTON_USE_WINED3D" :> "0") @@
    "indesign" :> <<>> @@
    "revit" :> ("DXVK_HUD" :> "off" @@ "PROTON_USE_WINED3D" :> "0") @@
    "sketchbook" :> ("DXVK_HUD" :> "off") @@
    "3dprinting" :> <<>> @@
    "superslicer" :> <<>> @@
    "coreldraw" :> ("DXVK_HUD" :> "off") @@
    "corelpainter" :> ("DXVK_HUD" :> "off") @@
    "teams" :> ("DXVK_HUD" :> "off") @@
    "copilot" :> ("DXVK_HUD" :> "off") @@
    "access" :> ("DXVK_HUD" :> "off") @@
    "visio" :> <<>> @@
    "sharepoint" :> <<>> @@
    "powerbi" :> <<>> @@
    "visualstudio" :> ("DXVK_HUD" :> "off") @@
    "jetbrains" :> ("DXVK_HUD" :> "off" @@ "_JAVA_OPTIONS" :> "-Xmx4096m") @@
    "notepad++" :> <<>> @@
    "paintnet" :> <<>> @@
    "figma" :> <<>> @@
    "unity" :> ("DXVK_HUD" :> "off" @@ "PROTON_USE_WINED3D" :> "0") @@
    "unreal" :> ("DXVK_HUD" :> "off" @@ "PROTON_USE_WINED3D" :> "0") @@
    "eaapp" :> <<>> @@
    "quickbooks" :> <<>> @@
    "turbotax" :> <<>> @@
    "tableau" :> <<>> @@
    "itunes" :> <<>> @@
    "dropbox" :> <<>> @@
    "googledrive" :> <<>> @@
    "wordpress" :> <<>> @@
    "notion" :> <<>> @@
    "grammarly" :> <<>> @@
    "virtualdub" :> <<>> @@
    "avisynth" :> <<>> @@
    "vobsub" :> <<>> @@
    "valorant" :> <<>> @@
    "r6siege" :> <<>> @@
    "battleye" :> <<>> @@
    "sharex" :> <<>> @@
    "hwmonitor" :> <<>>

\* one catalog key for each distinct environment_variables mapping
EnvEntryKeys == {"premiere", "vegas", "audition", "cubase", "jetbrains"}

\* dict.update / item assignment: the entries of b replace those of a
Update(a, b) ==
    [k \in DOMAIN a \cup DOMAIN b |-> IF k \in DOMAIN b THEN b[k] ELSE a[k]]

\* dict.get(key, default)
Get(dict, key, default) == IF key \in DOMAIN dict THEN dict[key] ELSE default

\* the process environments os.environ is drawn from
FullEnviron ==
    ("HOME" :> "/root") @@ ("PATH" :> "/usr/bin") @@
    ("WINEPREFIX" :> "/old/prefix") @@ ("DXVK_HUD" :> "full")

OsEnvirons ==
    {[k \in S \cup {"HOME"} |-> FullEnviron[k]] :
        S \in SUBSET {"PATH", "WINEPREFIX", "DXVK_HUD"}}

WinePrefixes == {"/root/.winpatable", "/srv/prefix"}

\* the values app_config is drawn from: no configuration, the empty one, one
\* without environment_variables, those of the catalog, and overlays that
\* collide with the baseline, with WINEPREFIX and with PATH
AppDicts ==
    {[k \in {} |-> ""], [name |-> "Application"]}
    \cup {[environment_variables |-> EnvironmentVariables[k]] : k \in EnvEntryKeys}
    \cup {[environment_variables |-> ("DXVK_HUD" :> "full") @@ ("WINEARCH" :> "win32")],
          [environment_variables |-> ("WINEPREFIX" :> "/srv/other")],
          [environment_variables |-> ("PATH" :> "/opt/app/bin")]}

NoConfig == <<>>

AppConfigs == {NoConfig} \cup {<<dict>> : dict \in AppDicts}

\* `if app_config:` -- None and the empty dict are false
Truthy(cfg) == cfg # NoConfig /\ DOMAIN cfg[1] # {}

\* the values setup_environment assigns, lines 17-22
Baseline(prefix) ==
    ("WINEPREFIX" :> prefix) @@ ("WINEARCH" :> "win64") @@
    ("DXVK_HUD" :> "off") @@ ("STAGING_SHARED_MEMORY" :> "1") @@
    ("DXVK_NUM_COMPILER_THREADS" :> "4") @@ ("vblank_mode" :> "0")

\* str(Path(wine_prefix) / 'proton')
WineDir(prefix) == prefix \o "/proton"

WithProtonPath(e, prefix, proton) ==
    IF proton
    THEN Update(e, "PATH" :> (WineDir(prefix) \o ":" \o Get(e, "PATH", "")))
    ELSE e

setup_environment_BaselineLast(environ, prefix, cfg, proton) ==
    LET e1 == IF Truthy(cfg)
              THEN Update(environ, Get(cfg[1], "environment_variables", <<>>))
              ELSE environ
        e2 == Update(e1, Baseline(prefix))
    IN  WithProtonPath(e2, prefix, proton)

setup_environment(environ, prefix, cfg, proton) ==
    LET e1 == Update(environ, Baseline(prefix))
        e2 == IF Truthy(cfg)
              THEN Update(e1, Get(cfg[1], "environment_variables", <<>>))
              ELSE e1
    IN  WithProtonPath(e2, prefix, proton)

InitEnv ==
    /\ osEnviron \in OsEnvirons
    /\ wine_prefix \in WinePrefixes
    /\ protonExists \in BOOLEAN
    /\ protonBinary \in BOOLEAN
    /\ protonBinary => protonExists
    /\ appExists \in BOOLEAN
    /\ entry \in EnvEntryKeys
    /\ app_config \in AppConfigs
    /\ env = <<>>
    /\ spawned = <<>>
    /\ launchRc = None
    /\ eop = "call"
    /\ ResolverIdle
    /\ InstallIdle
    /\ RegIdle
    /\ CatalogIdle
    /\ LaterIdle

\* setup_environment(wine_prefix, app_config), called on its own
SetupEnvironment ==
    /\ eop = "call"
    /\ env' = setup_environment(osEnviron, wine_prefix, app_config, protonExists)
    /\ eop' = "setup_environment"
    /\ UNCHANGED <<osEnviron, wine_prefix, protonExists, protonBinary, appExists,
                   entry, app_config, spawned, launchRc>>
    /\ UNCHANGED <<rvars, ivars, gvars, cvars, yvars>>

\* self.run_with_wine(installer_path) of the installer of `entry`
RunWithWine ==
    /\ eop = "call"
    /\ env' = Update(osEnviron, "WINEPREFIX" :> wine_prefix)
    /\ spawned' = <<[cmd |-> <<"wine", "installer_path">>, env |-> env']>>
    /\ eop' = "run_with_wine"
    /\ UNCHANGED <<osEnviron, wine_prefix, protonExists, protonBinary, appExists,
                   entry, app_config, launchRc>>
    /\ UNCHANGED <<rvars, ivars, gvars, cvars, yvars>>

\* launch_application(app_path, wine_prefix) for the application `entry`
LaunchApplication ==
    /\ eop = "call"
    /\ IF ~appExists
       THEN /\ launchRc' = 1
            /\ UNCHANGED <<env, spawned>>
       ELSE /\ env' = setup_environment(osEnviron, wine_prefix, NoConfig, protonExists)
            /\ spawned' = <<[cmd |-> <<"wine", "app_path">>, env |-> env']>>
            /\ launchRc' \in {0, 1}
    /\ eop' = "launch_application"
    /\ UNCHANGED <<osEnviron, wine_prefix, protonExists, protonBinary, appExists,
                   entry, app_config>>
    /\ UNCHANGED <<rvars, ivars, gvars, cvars, yvars>>

\* launch_with_proton(app_path, wine_prefix) for the application `entry`
LaunchWithProton ==
    /\ eop = "call"
    /\ IF ~protonBinary
       THEN /\ launchRc' = 1
            /\ UNCHANGED <<env, spawned>>
       ELSE /\ env' = setup_environment(osEnviron, wine_prefix, NoConfig, protonExists)
            /\ spawned' = <<[cmd |-> <<WineDir(wine_prefix) \o "/Proton/proton",
                                      "app_path">>,
                            env |-> env']>>
            /\ launchRc' \in {0, 1}
    /\ eop' = "launch_with_proton"
    /\ UNCHANGED <<osEnviron, wine_prefix, protonExists, protonBinary, appExists,
                   entry, app_config>>
    /\ UNCHANGED <<rvars, ivars, gvars, cvars, yvars>>

EnvNext ==
    \/ SetupEnvironment
    \/ RunWithWine
    \/ LaunchApplication
    \/ LaunchWithProton

SpecEnv == InitEnv /\ [][EnvNext]_vars

\* what the claim calls the composed environment of the entry at hand
ComposedEnvironment ==
    Update(Update(Update(osEnviron, Baseline(wine_prefix)),
                  EnvironmentVariables[entry]),
           "WINEPREFIX" :> wine_prefix)

\* C12 (as claimed): every process started for an install or launch step runs
\* with the process environment overlaid by the baseline and then by the
\* environment_variables of the catalog entry, with WINEPREFIX the prefix root.
C12_ComposedEnvironment ==
    \A i \in 1..Len(spawned) : spawned[i].env = ComposedEnvironment

\* the environment_variables the caller of setup_environment supplied
AppOverlay ==
    IF Truthy(app_config)
    THEN Get(app_config[1], "environment_variables", <<>>)
    ELSE <<>>

PrecedenceNames ==
    DOMAIN AppOverlay \cup DOMAIN Baseline(wine_prefix) \cup DOMAIN osEnviron

\* app overlay, else baseline, else process environment
Precedence(n) ==
    IF n \in DOMAIN AppOverlay THEN AppOverlay[n]
    ELSE IF n \in DOMAIN Baseline(wine_prefix) THEN Baseline(wine_prefix)[n]
    ELSE osEnviron[n]

\* C13 (as claimed): in the mapping setup_environment returns, every variable
\* has the value of the app overlay if defined there, else of the baseline,
\* else of the process environment -- for every name, PATH included.
C13_AppOverlayWins ==
    eop = "setup_environment" =>
        /\ DOMAIN env = PrecedenceNames
        /\ \A n \in DOMAIN env : env[n] = Precedence(n)

\* C13 (amended): the precedence holds for every variable except PATH when
\* <wine_prefix>/proton exists; PATH is then that directory, a colon, and the
\* value the precedence gives PATH (the empty string if it gives none).
C13_AppOverlayWinsButPath ==
    eop = "setup_environment" =>
        /\ DOMAIN env = PrecedenceNames \cup (IF protonExists THEN {"PATH"} ELSE {})
        /\ \A n \in DOMAIN env :
              IF n = "PATH" /\ protonExists
              THEN env[n] = WineDir(wine_prefix) \o ":" \o
                            (IF n \in PrecedenceNames THEN Precedence(n) ELSE "")
              ELSE env[n] = Precedence(n)

\* an overlay that defines PATH, composed for a prefix that holds proton
C13_Witness ==
    /\ eop = "setup_environment"
    /\ protonExists
    /\ wine_prefix = "/srv/prefix"
    /\ "PATH" \in DOMAIN AppOverlay
    /\ "PATH" \in DOMAIN osEnviron
    /\ env["PATH"] = "/srv/prefix/proton:/opt/app/bin"
    /\ env["WINEARCH"] = "win64"

(***************************************************************************)
(* The registry-import file (ApplicationInstaller.configure_registry)      *)
(***************************************************************************)
\* a Python str
PyStr(s) == [type |-> "str", s |-> s]

\* a Python int of any size: sign, and magnitude hi * 2^16 + lo
Abs(n) == IF n < 0 THEN 0 - n ELSE n

PyInt(n) == [type |-> "int", neg |-> n < 0, hi |-> Abs(n) \div 65536,
           lo |-> Abs(n) % 65536]

TwoTo32 == [type |-> "int", neg |-> FALSE, hi |-> 65536, lo |-> 0]

\* a Python bool: an int subclass, True is 1 and False is 0
PyBool(b) == [type |-> "bool", neg |-> FALSE, hi |-> 0, lo |-> IF b THEN 1 ELSE 0]

\* CONFIG.registry_tweaks of every catalog entry, in dict order
RegistryTweaks ==
    "premiere" :> <<
        [path |-> "HKEY_CURRENT_USER\\Software\\Wine\\Direct3D",
         values |-> <<[key |-> "CSMT", value |-> PyStr("enabled")],
                 [key |-> "Renderer", value |-> PyStr("opengl")],
                 [key |-> "VideoMemorySize", value |-> PyInt(4096)]>>],
        [path |-> "HKEY_CURRENT_USER\\Software\\Adobe\\Premiere Pro\\14.0",
         values |-> <<[key |-> "GPU Acceleration", value |-> PyInt(1)],
                 [key |-> "CUDA", value |-> PyInt(1)],
                 [key |-> "OpenCL", value |-> PyInt(1)]>>]>> @@
    "vegas" :> <<
        [path |-> "HKEY_CURRENT_USER\\Software\\Wine\\Direct3D",
         values |-> <<[key |-> "CSMT", value |-> PyStr("enabled")],
                 [key |-> "Renderer", value |-> PyStr("opengl")],
                 [key |-> "VideoMemorySize", value |-> PyInt(2048)]>>],
        [path |-> "HKEY_CURRENT_USER\\Software\\Sony\\Vegas\\19.0",
         values |-> <<[key |-> "HardwareAcceleration", value |-> PyInt(1)],
                 [key |-> "CUDA", value |-> PyInt(1)]>>]>> @@
    "3dsmax" :> <<
        [path |-> "HKEY_CURRENT_USER\\Software\\Wine\\Direct3D",
         values |-> <<[key |-> "CSMT", value |-> PyStr("enabled")],
                 [key |-> "Renderer", value |-> PyStr("opengl")],
                 [key |-> "VideoMemorySize", value |-> PyInt(4096)],
                 [key |-> "StrictDrawOrdering", value |-> PyStr("enabled")]>>],
        [path |-> "HKEY_CURRENT_USER\\Software\\Autodesk\\3dsmax\\2024",
         values |-> <<[key |-> "HardwareRenderer", value |-> PyStr("DirectX11")],
                 [key |-> "GPUDeviceIndex", value |-> PyInt(0)]>>]>> @@
    "office" :> <<
        [path |-> "HKEY_CURRENT_USER\\Software\\Microsoft\\Office\\16.0\\Word",
         values |-> <<[key |-> "HardwareAcceleration", value |-> PyInt(1)]>>]>> @@
    "audition" :> <<
        [path |-> "HKEY_CURRENT_USER\\Software\\Adobe\\Audition\\2024",
         values |-> <<[key |-> "HardwareAcceleration", value |-> PyInt(1)],
                 [key |-> "AudioBufferSize", value |-> PyInt(512)]>>]>> @@
    "cubase" :> <<>> @@
    "ableton" :> <<
        [path |-> "HKEY_CURRENT_USER\\Software\\Ableton\\Live\\12.0",
         values |-> <<[key |-> "AudioBufferSize", value |-> PyInt(256)],
                 [key |-> "BufferSize", value |-> PyInt(512)]>>]>> @@
    "protools" :> <<>> @@
    "reason" :> <<>> @@
    "autocad" :> <<
        [path |-> "HKEY_CURRENT_USER\\Software\\Autodesk\\AutoCAD\\2024",
         values |-> <<[key |-> "HardwareRenderer", value |-> PyStr("DirectX11")],
                 [key |-> "Performance", value |-> PyStr("High")]>>]>> @@
    "solidworks" :> <<
        [path |-> "HKEY_CURRENT_USER\\Software\\SolidWorks\\SolidWorks 2024",
         values |-> <<[key |-> "Performance", value |-> PyStr("Maximum")],
                 [key |-> "GPU", value |-> PyStr("Enabled")]>>]>> @@
    "fusion360" :> <<
        [path |-> "HKEY_CURRENT_USER\\Software\\Autodesk\\Fusion360\\1.0",
         values |-> <<[key |-> "GPU", value |-> PyStr("Enabled")],
                 [key |-> "ViewportPerformance", value |-> PyStr("High")]>>]>> @@
    "arcgis" :> <<>> @@
    "photoshop" :> <<
        [path |-> "HKEY_CURRENT_USER\\Software\\Adobe\\Photoshop\\2024",
         values |-> <<[key |-> "GPUAcceleration", value |-> PyInt(1)],
                 [key |-> "VRAM", value |-> PyInt(2048)]>>]>> @@
    "lightroom" :> <<
        [path |-> "HKEY_CURRENT_USER\\Software\\Adobe\\Lightroom\\2024",
         values |-> <<[key |-> "GPU", value |-> PyStr("enabled")],
                 [key |-> "CacheSize", value |-> PyInt(4096)]>>]>> @@
    "illustrator" :> <<
        [path |-> "HKEY_CURRENT_USER\\Software\\Adobe\\Illustrator\\2024",
         values |-> <<[key |-> "GPU", value |-> PyStr("enabled")],
                 [key |-> "Performance", value |-> PyStr("high")]>>]>> @@
    "aftereffects" :> <<
        [path |-> "HKEY_CURRENT_USER\\Software\\Adobe\\After Effects\\2024",
         values |-> <<[key |-> "GPUAcceleration", value |-> PyInt(1)],
                 [key |-> "CUDA", value |-> PyInt(1)],
                 [key |-> "RayTracing", value |-> PyInt(1)]>>]>> @@
    "indesign" :> <<>> @@
    "revit" :> <<
        [path |-> "HKEY_CURRENT_USER\\Software\\Autodesk\\Revit\\2024",
         values |-> <<[key |-> "GPU", value |-> PyStr("enabled")],
                 [key |-> "ViewportPerformance", value |-> PyStr("high")],
                 [key |-> "HardwareAcceleration", value |-> PyInt(1)]>>]>> @@
    "sketchbook" :> <<
        [path |-> "HKEY_CURRENT_USER\\Software\\Autodesk\\Sketchbook\\2024",
         values |-> <<[key |-> "HardwareAcceleration", value |-> PyInt(1)]>>]>> @@
    "3dprinting" :> <<>> @@
    "superslicer" :> <<>> @@
    "coreldraw" :> <<
        [path |-> "HKEY_CURRENT_USER\\Software\\Corel\\CorelDRAW\\2024",
         values |-> <<[key |-> "GPU", value |-> PyStr("enabled")],
                 [key |-> "Performance", value |-> PyStr("high")]>>]>> @@
    "corelpainter" :> <<
        [path |-> "HKEY_CURRENT_USER\\Software\\Corel\\Painter\\2024",
         values |-> <<[key |-> "HardwareAcceleration", value |-> PyInt(1)]>>]>> @@
    "teams" :> <<
        [path |-> "HKEY_CURRENT_USER\\Software\\Microsoft\\Teams",
         values |-> <<[key |-> "HardwareAcceleration", value |-> PyInt(1)]>>]>> @@
    "copilot" :> <<
        [path |-> "HKEY_CURRENT_USER\\Software\\Microsoft\\Copilot",
         values |-> <<[key |-> "EnableGPU", value |-> PyInt(0)]>>]>> @@
    "access" :> <<
        [path |-> "HKEY_CURRENT_USER\\Software\\Microsoft\\Office\\16.0\\Access",
         values |-> <<[key |-> "HardwareAcceleration", value |-> PyInt(0)]>>]>> @@
    "visio" :> <<>> @@
    "sharepoint" :> <<>> @@
    "powerbi" :> <<>> @@
    "visualstudio" :> <<
        [path |-> "HKEY_CURRENT_USER\\Software\\Microsoft\\VisualStudio\\17.0",
         values |-> <<[key |-> "Performance", value |-> PyStr("Optimized")]>>]>> @@
    "jetbrains" :> <<
        [path |-> "HKEY_CURRENT_USER\\Software\\JetBrains\\IDE",
         values |-> <<[key |-> "Performance", value |-> PyStr("Maximum")]>>]>> @@
    "notepad++" :> <<>> @@
    "paintnet" :> <<>> @@
    "figma" :> <<>> @@
    "unity" :> <<
        [path |-> "HKEY_CURRENT_USER\\Software\\Unity\\Editor\\2023.2",
         values |-> <<[key |-> "Performance", value |-> PyStr("Maximum")],
                 [key |-> "GPU", value |-> PyStr("Enabled")]>>]>> @@
    "unreal" :> <<
        [path |-> "HKEY_CURRENT_USER\\Software\\EpicGames\\Unreal Engine\\5.3",
         values |-> <<[key |-> "GPU", value |-> PyStr("Enabled")],
                 [key |-> "Performance", value |-> PyStr("Maximum")]>>]>> @@
    "eaapp" :> <<>> @@
    "quickbooks" :> <<>> @@
    "turbotax" :> <<>> @@
    "tableau" :> <<>> @@
    "itunes" :> <<>> @@
    "dropbox" :> <<>> @@
    "googledrive" :> <<>> @@
    "wordpress" :> <<>> @@
    "notion" :> <<>> @@
    "grammarly" :> <<>> @@
    "virtualdub" :> <<>> @@
    "avisynth" :> <<>> @@
    "vobsub" :> <<>> @@
    "valorant" :> <<>> @@
    "r6siege" :> <<>> @@
    "battleye" :> <<>> @@
    "sharex" :> <<>> @@
    "hwmonitor" :> <<>>

HexDigits == <<"0", "1", "2", "3", "4", "5", "6", "7",
               "8", "9", "a", "b", "c", "d", "e", "f">>

RECURSIVE Hex(_)
\* format(n, 'x') of a natural number below 2^31, as a list of characters
Hex(n) ==
    IF n < 16 THEN <<HexDigits[n + 1]>>
    ELSE Hex(n \div 16) \o <<HexDigits[(n % 16) + 1]>>

RECURSIVE ZFill(_, _)
\* zero padding on the left up to `width` characters, never truncating
ZFill(s, width) == IF Len(s) >= width THEN s ELSE ZFill(<<"0">> \o s, width)

\* the hexadecimal digits of the magnitude of an int, no leading zeros
HexMagnitude(value) ==
    IF value.hi = 0 THEN Hex(value.lo)
    ELSE Hex(value.hi) \o ZFill(Hex(value.lo), 4)

\* f'{value:08x}': minimum width 8 with the sign counted in the width
Format08x(value) ==
    IF value.neg THEN <<"-">> \o ZFill(HexMagnitude(value), 7)
    ELSE ZFill(HexMagnitude(value), 8)

PathLine(path) == <<"[", path, "]">>

ValueLines_IntsDropped(key, value) ==
    IF value.type = "str"
    THEN << <<"\"", key, "\"=\"", value.s, "\"">> >>
    ELSE <<>>

\* the lines the body of the inner loop writes for one value
ValueLines(key, value) ==
    IF value.type = "str"
    THEN << <<"\"", key, "\"=\"", value.s, "\"">> >>
    ELSE IF value.type \in {"int", "bool"}
    THEN << <<"\"", key, "\"=dword:">> \o Format08x(value) >>
    ELSE <<>>

\* integers and a string a caller may put into tweaks
ProbeValues ==
    {PyInt(0), PyInt(-1), PyInt(-4096), PyInt(2147483647), TwoTo32,
     PyBool(TRUE), PyBool(FALSE), PyStr("enabled")}

\* tweaks of one value each, and one whose first path has no value
ProbeTweaks ==
    {<<[path |-> "HKEY_CURRENT_USER\\Software\\Wine\\Direct3D",
        values |-> <<[key |-> "VideoMemorySize", value |-> v]>>]>> :
        v \in ProbeValues}
    \cup {<<[path |-> "HKEY_CURRENT_USER\\Software\\Wine",
             values |-> <<>>],
            [path |-> "HKEY_CURRENT_USER\\Software\\Wine\\Direct3D",
             values |-> <<[key |-> "CSMT", value |-> PyStr("enabled")],
                          [key |-> "VideoMemorySize", value |-> PyInt(-1)]>>]>>}

TweaksInputs == {RegistryTweaks[k] : k \in CatalogKeys} \cup ProbeTweaks

\* where the loops go after the values of path p have been written up to v
AfterValue(tw, p, v) ==
    IF v < Len(tw[p].values) THEN [pc |-> "value", p |-> p, v |-> v + 1]
    ELSE IF p < Len(tw) THEN [pc |-> "path", p |-> p + 1, v |-> 0]
    ELSE [pc |-> "regedit", p |-> p, v |-> v]

InitRegistry ==
    /\ tweaks \in TweaksInputs
    /\ reg_file = <<>>
    /\ gpc = "open"
    /\ gp = 0
    /\ gv = 0
    /\ regCmds = <<>>
    /\ regResult = None
    /\ ResolverIdle
    /\ InstallIdle
    /\ EnvIdle
    /\ CatalogIdle
    /\ LaterIdle

\* `with open(reg_file, 'w') as f: f.write("REGEDIT4\n\n")`
RegOpen ==
    /\ gpc = "open"
    /\ reg_file' = << <<"REGEDIT4">>, <<>> >>
    /\ IF Len(tweaks) = 0
       THEN gpc' = "regedit" /\ UNCHANGED gp
       ELSE gpc' = "path" /\ gp' = 1
    /\ UNCHANGED <<tweaks, gv, regCmds, regResult>>
    /\ UNCHANGED <<rvars, ivars, evars, cvars, yvars>>

\* `for path, values in tweaks.items(): f.write(f"[{path}]\n")`
RegWritePath ==
    /\ gpc = "path"
    /\ reg_file' = Append(reg_file, PathLine(tweaks[gp].path))
    /\ LET n == AfterValue(tweaks, gp, 0)
       IN  gpc' = n.pc /\ gp' = n.p /\ gv' = n.v
    /\ UNCHANGED <<tweaks, regCmds, regResult>>
    /\ UNCHANGED <<rvars, ivars, evars, cvars, yvars>>

\* the body of `for key, value in values.items()`
RegWriteValue ==
    /\ gpc = "value"
    /\ LET item == tweaks[gp].values[gv]
       IN  reg_file' = reg_file \o ValueLines(item.key, item.value)
    /\ LET n == AfterValue(tweaks, gp, gv)
       IN  gpc' = n.pc /\ gp' = n.p /\ gv' = n.v
    /\ UNCHANGED <<tweaks, regCmds, regResult>>
    /\ UNCHANGED <<rvars, ivars, evars, cvars, yvars>>

\* `subprocess.run(['regedit', str(reg_file)], check=False); return True`, or
\* regedit cannot be started and the handler returns False
RegApply ==
    /\ gpc = "regedit"
    /\ regCmds' = Append(regCmds, <<"regedit", "tweaks.reg">>)
    /\ regResult' \in BOOLEAN
    /\ gpc' = "done"
    /\ UNCHANGED <<tweaks, reg_file, gp, gv>>
    /\ UNCHANGED <<rvars, ivars, evars, cvars, yvars>>

\* open or write raises: `except Exception: return False`
RegExcept ==
    /\ gpc \in {"open", "path", "value"}
    /\ regResult' = FALSE
    /\ gpc' = "done"
    /\ UNCHANGED <<tweaks, reg_file, gp, gv, regCmds>>
    /\ UNCHANGED <<rvars, ivars, evars, cvars, yvars>>

RegistryNext ==
    \/ RegOpen
    \/ RegWritePath
    \/ RegWriteValue
    \/ RegApply
    \/ RegExcept

SpecRegistry == InitRegistry /\ [][RegistryNext]_vars

IsDwordLine(line) == Len(line) >= 3 /\ line[3] = "\"=dword:"

IsPathLine(line) == Len(line) = 3 /\ line[1] = "[" /\ line[3] = "]"

\* C14 (as claimed): every integer value is written as "name"=dword: followed
\* by exactly 8 lowercase hexadecimal digits.
C14_EightHexDigits ==
    \A i \in 1..Len(reg_file) :
        IsDwordLine(reg_file[i]) =>
            /\ Len(reg_file[i]) = 3 + 8
            /\ \A c \in 4..Len(reg_file[i]) : reg_file[i][c] \in Range(HexDigits)

\* the with block ended without an exception
FileWritten == gpc = "regedit" \/ regCmds # <<>>

RECURSIVE LinesBefore(_)
\* the lines the paths before the p-th one, and their values, take
LinesBefore(p) ==
    IF p = 1 THEN 0
    ELSE LinesBefore(p - 1) + 1 + Len(tweaks[p - 1].values)

\* the line of the [path] of the p-th path: the header takes two lines
PathPos(p) == 2 + LinesBefore(p) + 1

\* C15: the written file starts with the REGEDIT4 header, then holds for each
\* path of the tweaks, in mapping order, one [path] line followed by exactly
\* one line per value of that path, in mapping order (strings as
\* "name"="value", integers as a dword line of that name), and nothing else.
C15_FileLayout ==
    FileWritten =>
        /\ reg_file[1] = <<"REGEDIT4">>
        /\ Len(reg_file) = 2 + LinesBefore(Len(tweaks) + 1)
        /\ \A p \in 1..Len(tweaks) :
              /\ reg_file[PathPos(p)] = <<"[", tweaks[p].path, "]">>
              /\ \A k \in 1..Len(tweaks[p].values) :
                    LET line == reg_file[PathPos(p) + k]
                        item == tweaks[p].values[k]
                    IN  /\ ~IsPathLine(line)
                        /\ line[1] = "\"" /\ line[2] = item.key
                        /\ IF item.value.type = "str"
                           THEN line = <<"\"", item.key, "\"=\"", item.value.s, "\"">>
                           ELSE IsDwordLine(line)

\* the tweaks of premiere have been written: two paths of three values each
C15_Witness ==
    /\ gpc = "done"
    /\ regResult = TRUE
    /\ Len(tweaks) = 2
    /\ Len(reg_file) = 10
    /\ reg_file[3] = PathLine("HKEY_CURRENT_USER\\Software\\Wine\\Direct3D")
    /\ reg_file[4] = <<"\"", "CSMT", "\"=\"", "enabled", "\"">>
    /\ reg_file[6] = <<"\"", "VideoMemorySize", "\"=dword:",
                       "0", "0", "0", "0", "1", "0", "0", "0">>
    /\ reg_file[7] = PathLine("HKEY_CURRENT_USER\\Software\\Adobe\\Premiere Pro\\14.0")

(***************************************************************************)
(* The catalog (ApplicationManager) and the install-app command            *)
(* (WinpatableUI.run / cmd_install_app, main)                              *)
(***************************************************************************)
\* the items of the dict literal APPLICATIONS, in source order
ApplicationsItems == <<
    <<"premiere", "AdobePremiereInstaller">>,
    <<"vegas", "SonyVegasInstaller">>,
    <<"3dsmax", "Autodesk3DSMaxInstaller">>,
    <<"office", "MicrosoftOfficeInstaller">>,
    <<"audition", "AdobeAuditionInstaller">>,
    <<"cubase", "CubaseNuendoInstaller">>,
    <<"ableton", "ABLETONLiveInstaller">>,
    <<"protools", "ProToolsInstaller">>,
    <<"reason", "PropellerheadsReasonInstaller">>,
    <<"autocad", "AutodeskAutoCADInstaller">>,
    <<"solidworks", "SolidWorksInstaller">>,
    <<"fusion360", "FusionInstaller">>,
    <<"arcgis", "ArcGISInstaller">>,
    <<"photoshop", "AdobePhotoshopInstaller">>,
    <<"lightroom", "AdobeLightroomInstaller">>,
    <<"illustrator", "AdobeIllustratorInstaller">>,
    <<"aftereffects", "AdobeAfterEffectsInstaller">>,
    <<"indesign", "AdobeInDesignInstaller">>,
    <<"revit", "AutodeskRevitInstaller">>,
    <<"sketchbook", "AutodeskSketchbookInstaller">>,
    <<"3dprinting", "PrusaSlicerInstaller">>,
    <<"superslicer", "SuperSlicerInstaller">>,
    <<"coreldraw", "CorelDrawInstaller">>,
    <<"corelpainter", "CorelPaintInstaller">>,
    <<"teams", "MicrosoftTeamsInstaller">>,
    <<"copilot", "MicrosoftCopilotInstaller">>,
    <<"access", "MicrosoftAccessInstaller">>,
    <<"visio", "VisioInstaller">>,
    <<"sharepoint", "SharePointInstaller">>,
    <<"powerbi", "PowerBIInstaller">>,
    <<"visualstudio", "VisualStudioInstaller">>,
    <<"jetbrains", "JetBrainsIDEInstaller">>,
    <<"notepad++", "NoteplusPlusInstaller">>,
    <<"paintnet", "PaintNetInstaller">>,
    <<"figma", "FigmaInstaller">>,
    <<"unity", "UnityInstaller">>,
    <<"unreal", "UnrealEngineInstaller">>,
    <<"eaapp", "EAAppInstaller">>,
    <<"quickbooks", "QuickBooksInstaller">>,
    <<"turbotax", "TurboTaxInstaller">>,
    <<"tableau", "TableauInstaller">>,
    <<"itunes", "iTunesInstaller">>,
    <<"dropbox", "DropboxInstaller">>,
    <<"googledrive", "GoogleDriveInstaller">>,
    <<"wordpress", "WordPressInstaller">>,
    <<"notion", "NotionInstaller">>,
    <<"grammarly", "GrammarlyInstaller">>,
    <<"virtualdub", "VirtualDubInstaller">>,
    <<"avisynth", "AviSynthInstaller">>,
    <<"vobsub", "VobSubInstaller">>,
    <<"valorant", "ValorantInstaller">>,
    <<"r6siege", "Rainbow6SiegeInstaller">>,
    <<"battleye", "BattlEyeInstaller">>,
    <<"sharex", "ShareXInstaller">>,
    <<"hwmonitor", "HWMonitorInstaller">>>>

\* the keys of APPLICATIONS, character by character
KeySpellings == {
    <<"p", "r", "e", "m", "i", "e", "r", "e">>,
    <<"v", "e", "g", "a", "s">>,
    <<"3", "d", "s", "m", "a", "x">>,
    <<"o", "f", "f", "i", "c", "e">>,
    <<"a", "u", "d", "i", "t", "i", "o", "n">>,
    <<"c", "u", "b", "a", "s", "e">>,
    <<"a", "b", "l", "e", "t", "o", "n">>,
    <<"p", "r", "o", "t", "o", "o", "l", "s">>,
    <<"r", "e", "a", "s", "o", "n">>,
    <<"a", "u", "t", "o", "c", "a", "d">>,
    <<"s", "o", "l", "i", "d", "w", "o", "r", "k", "s">>,
    <<"f", "u", "s", "i", "o", "n", "3", "6", "0">>,
    <<"a", "r", "c", "g", "i", "s">>,
    <<"p", "h", "o", "t", "o", "s", "h", "o", "p">>,
    <<"l", "i", "g", "h", "t", "r", "o", "o", "m">>,
    <<"i", "l", "l", "u", "s", "t", "r", "a", "t", "o", "r">>,
    <<"a", "f", "t", "e", "r", "e", "f", "f", "e", "c", "t", "s">>,
    <<"i", "n", "d", "e", "s", "i", "g", "n">>,
    <<"r", "e", "v", "i", "t">>,
    <<"s", "k", "e", "t", "c", "h", "b", "o", "o", "k">>,
    <<"3", "d", "p", "r", "i", "n", "t", "i", "n", "g">>,
    <<"s", "u", "p", "e", "r", "s", "l", "i", "c", "e", "r">>,
    <<"c", "o", "r", "e", "l", "d", "r", "a", "w">>,
    <<"c", "o", "r", "e", "l", "p", "a", "i", "n", "t", "e", "r">>,
    <<"t", "e", "a", "m", "s">>,
    <<"c", "o", "p", "i", "l", "o", "t">>,
    <<"a", "c", "c", "e", "s", "s">>,
    <<"v", "i", "s", "i", "o">>,
    <<"s", "h", "a", "r", "e", "p", "o", "i", "n", "t">>,
    <<"p", "o", "w", "e", "r", "b", "i">>,
    <<"v", "i", "s", "u", "a", "l", "s", "t", "u", "d", "i", "o">>,
    <<"j", "e", "t", "b", "r", "a", "i", "n", "s">>,
    <<"n", "o", "t", "e", "p", "a", "d", "+", "+">>,
    <<"p", "a", "i", "n", "t", "n", "e", "t">>,
    <<"f", "i", "g", "m", "a">>,
    <<"u", "n", "i", "t", "y">>,
    <<"u", "n", "r", "e", "a", "l">>,
    <<"e", "a", "a", "p", "p">>,
    <<"q", "u", "i", "c", "k", "b", "o", "o", "k", "s">>,
    <<"t", "u", "r", "b", "o", "t", "a", "x">>,
    <<"t", "a", "b", "l", "e", "a", "u">>,
    <<"i", "t", "u", "n", "e", "s">>,
    <<"d", "r", "o", "p", "b", "o", "x">>,
    <<"g", "o", "o", "g", "l", "e", "d", "r", "i", "v", "e">>,
    <<"w", "o", "r", "d", "p", "r", "e", "s", "s">>,
    <<"n", "o", "t", "i", "o", "n">>,
    <<"g", "r", "a", "m", "m", "a", "r", "l", "y">>,
    <<"v", "i", "r", "t", "u", "a", "l", "d", "u", "b">>,
    <<"a", "v", "i", "s", "y", "n", "t", "h">>,
    <<"v", "o", "b", "s", "u", "b">>,
    <<"v", "a", "l", "o", "r", "a", "n", "t">>,
    <<"r", "6", "s", "i", "e", "g", "e">>,
    <<"b", "a", "t", "t", "l", "e", "y", "e">>,
    <<"s", "h", "a", "r", "e", "x">>,
    <<"h", "w", "m", "o", "n", "i", "t", "o", "r">>}

\* names that are not keys: other capitalisations, unknown names, the empty name
OtherSpellings == {
    <<"O", "f", "f", "i", "c", "e">>,
    <<"O", "F", "F", "I", "C", "E">>,
    <<"P", "r", "e", "m", "i", "e", "r", "e">>,
    <<"3", "D", "S", "M", "A", "X">>,
    <<"V", "e", "G", "a", "S">>,
    <<"P", "h", "o", "t", "o", "s", "h", "o", "p">>,
    <<"p", "h", "o", "t", "o", "s", "h", "o", "p", "2">>,
    <<"P", "h", "o", "t", "o", "s", "h", "o", "p", "2">>,
    <<"i", "n", "v", "a", "l", "i", "d">>,
    <<"o", "f", "f", "i", "c", "e", "s">>,
    <<>>}

\* name, minimum_ram_gb, gpu_required and notes of the CONFIG of every entry
Config ==
    "premiere" :> [name |-> "Adobe Premiere Pro", minimum_ram_gb |-> 16,
        gpu_required |-> TRUE,
        notes |-> "Adobe Premiere requires NVIDIA GPU for CUDA acceleration"] @@
    "vegas" :> [name |-> "Sony Vegas Pro", minimum_ram_gb |-> 8,
        gpu_required |-> FALSE,
        notes |-> "Sony Vegas Pro works with GPU acceleration on NVIDIA/AMD"] @@
    "3dsmax" :> [name |-> "Autodesk 3DS Max", minimum_ram_gb |-> 16,
        gpu_required |-> TRUE,
        notes |-> "3DS Max requires dedicated GPU for viewport performance"] @@
    "office" :> [name |-> "Microsoft Office", minimum_ram_gb |-> 4,
        gpu_required |-> FALSE,
        notes |-> "Microsoft Office works well with Wine/Proton"] @@
    "audition" :> [name |-> "Adobe Audition", minimum_ram_gb |-> 8,
        gpu_required |-> FALSE,
        notes |-> "Adobe Audition audio editing suite"] @@
    "cubase" :> [name |-> "Cubase/Nuendo", minimum_ram_gb |-> 6,
        gpu_required |-> FALSE,
        notes |-> "Steinberg Cubase/Nuendo DAW"] @@
    "ableton" :> [name |-> "Ableton Live", minimum_ram_gb |-> 8,
        gpu_required |-> FALSE,
        notes |-> "Music production DAW"] @@
    "protools" :> [name |-> "Pro Tools", minimum_ram_gb |-> 8,
        gpu_required |-> FALSE,
        notes |-> "Professional audio DAW by Avid"] @@
    "reason" :> [name |-> "Propellerheads Reason", minimum_ram_gb |-> 6,
        gpu_required |-> FALSE,
        notes |-> "Propellerheads Reason music production"] @@
    "autocad" :> [name |-> "Autodesk AutoCAD", minimum_ram_gb |-> 16,
        gpu_required |-> TRUE,
        notes |-> "Professional 2D/3D CAD software"] @@
    "solidworks" :> [name |-> "SolidWorks", minimum_ram_gb |-> 16,
        gpu_required |-> TRUE,
        notes |-> "3D CAD design software"] @@
    "fusion360" :> [name |-> "Autodesk Fusion 360", minimum_ram_gb |-> 8,
        gpu_required |-> TRUE,
        notes |-> "Cloud-based 3D CAD/CAM platform"] @@
    "arcgis" :> [name |-> "ArcGIS", minimum_ram_gb |-> 8,
        gpu_required |-> TRUE,
        notes |-> "ESRI GIS mapping and spatial analysis"] @@
    "photoshop" :> [name |-> "Adobe Photoshop", minimum_ram_gb |-> 4,
        gpu_required |-> FALSE,
        notes |-> "Professional image editing and graphic design"] @@
    "lightroom" :> [name |-> "Adobe Lightroom", minimum_ram_gb |-> 4,
        gpu_required |-> FALSE,
        notes |-> "Professional photo management and editing"] @@
    "illustrator" :> [name |-> "Adobe Illustrator", minimum_ram_gb |-> 4,
        gpu_required |-> FALSE,
        notes |-> "Professional vector graphics and illustration"] @@
    "aftereffects" :> [name |-> "Adobe After Effects", minimum_ram_gb |-> 4,
        gpu_required |-> FALSE,
        notes |-> "Professional motion graphics and VFX composition"] @@
    "indesign" :> [name |-> "Adobe InDesign", minimum_ram_gb |-> 6,
        gpu_required |-> FALSE,
        notes |-> "Adobe InDesign for layout and publishing"] @@
    "revit" :> [name |-> "Autodesk Revit", minimum_ram_gb |-> 4,
        gpu_required |-> FALSE,
        notes |-> "BIM and architectural design software"] @@
    "sketchbook" :> [name |-> "Autodesk Sketchbook", minimum_ram_gb |-> 4,
        gpu_required |-> FALSE,
        notes |-> "Digital painting and drawing software"] @@
    "3dprinting" :> [name |-> "PrusaSlicer", minimum_ram_gb |-> 4,
        gpu_required |-> FALSE,
        notes |-> "PrusaSlicer 3D printer slicing software"] @@
    "superslicer" :> [name |-> "SuperSlicer", minimum_ram_gb |-> 4,
        gpu_required |-> FALSE,
        notes |-> "Advanced 3D printer slicing software"] @@
    "coreldraw" :> [name |-> "CorelDRAW", minimum_ram_gb |-> 4,
        gpu_required |-> FALSE,
        notes |-> "Professional vector graphics and design"] @@
    "corelpainter" :> [name |-> "Corel Painter", minimum_ram_gb |-> 4,
        gpu_required |-> FALSE,
        notes |-> "Professional digital painting and illustration"] @@
    "teams" :> [name |-> "Microsoft Teams", minimum_ram_gb |-> 4,
        gpu_required |-> FALSE,
        notes |-> "Collaboration and meetings client"] @@
    "copilot" :> [name |-> "Microsoft Copilot", minimum_ram_gb |-> 4,
        gpu_required |-> FALSE,
        notes |-> "AI assistant integrations and widgets"] @@
    "access" :> [name |-> "Microsoft Access", minimum_ram_gb |-> 4,
        gpu_required |-> FALSE,
        notes |-> "Database desktop application (part of Microsoft Office)"] @@
    "visio" :> [name |-> "Microsoft Visio", minimum_ram_gb |-> 6,
        gpu_required |-> FALSE,
        notes |-> "Microsoft diagramming and visualization tool"] @@
    "sharepoint" :> [name |-> "Microsoft SharePoint", minimum_ram_gb |-> 6,
        gpu_required |-> FALSE,
        notes |-> "Microsoft SharePoint collaboration platform"] @@
    "powerbi" :> [name |-> "Power BI", minimum_ram_gb |-> 6,
        gpu_required |-> FALSE,
        notes |-> "Microsoft Power BI analytics platform"] @@
    "visualstudio" :> [name |-> "Microsoft Visual Studio", minimum_ram_gb |-> 8,
        gpu_required |-> FALSE,
        notes |-> "IDE for C#, C++, Python development"] @@
    "jetbrains" :> [name |-> "JetBrains IDE", minimum_ram_gb |-> 4,
        gpu_required |-> FALSE,
        notes |-> "PyCharm, IntelliJ IDEA, WebStorm, Rider, etc."] @@
    "notepad++" :> [name |-> "Notepad++", minimum_ram_gb |-> 4,
        gpu_required |-> FALSE,
        notes |-> "Lightweight text editor with syntax highlighting"] @@
    "paintnet" :> [name |-> "Paint.NET", minimum_ram_gb |-> 4,
        gpu_required |-> FALSE,
        notes |-> "Simple yet powerful image editor"] @@
    "figma" :> [name |-> "Figma", minimum_ram_gb |-> 4,
        gpu_required |-> FALSE,
        notes |-> "Web-based UI/UX design tool"] @@
    "unity" :> [name |-> "Unity Engine", minimum_ram_gb |-> 8,
        gpu_required |-> TRUE,
        notes |-> "Game engine and development platform"] @@
    "unreal" :> [name |-> "Unreal Engine", minimum_ram_gb |-> 16,
        gpu_required |-> TRUE,
        notes |-> "Professional game engine"] @@
    "eaapp" :> [name |-> "EA App", minimum_ram_gb |-> 6,
        gpu_required |-> FALSE,
        notes |-> "EA Games launcher"] @@
    "quickbooks" :> [name |-> "QuickBooks", minimum_ram_gb |-> 6,
        gpu_required |-> FALSE,
        notes |-> "Intuit accounting and bookkeeping"] @@
    "turbotax" :> [name |-> "TurboTax", minimum_ram_gb |-> 6,
        gpu_required |-> FALSE,
        notes |-> "Tax preparation software"] @@
    "tableau" :> [name |-> "Tableau", minimum_ram_gb |-> 6,
        gpu_required |-> FALSE,
        notes |-> "Tableau business intelligence and analytics"] @@
    "itunes" :> [name |-> "iTunes", minimum_ram_gb |-> 6,
        gpu_required |-> FALSE,
        notes |-> "Apple media player and management"] @@
    "dropbox" :> [name |-> "Dropbox", minimum_ram_gb |-> 4,
        gpu_required |-> FALSE,
        notes |-> "Cloud storage and sync service"] @@
    "googledrive" :> [name |-> "Google Drive", minimum_ram_gb |-> 4,
        gpu_required |-> FALSE,
        notes |-> "Google Cloud Drive sync"] @@
    "wordpress" :> [name |-> "WordPress", minimum_ram_gb |-> 4,
        gpu_required |-> FALSE,
        notes |-> "Web-based content management system"] @@
    "notion" :> [name |-> "Notion", minimum_ram_gb |-> 4,
        gpu_required |-> FALSE,
        notes |-> "Web-based note-taking and project management"] @@
    "grammarly" :> [name |-> "Grammarly", minimum_ram_gb |-> 4,
        gpu_required |-> FALSE,
        notes |-> "AI-powered writing assistant"] @@
    "virtualdub" :> [name |-> "VirtualDub", minimum_ram_gb |-> 4,
        gpu_required |-> FALSE,
        notes |-> "Video capture and editing utility"] @@
    "avisynth" :> [name |-> "AviSynth", minimum_ram_gb |-> 4,
        gpu_required |-> FALSE,
        notes |-> "Video scripting language and framework"] @@
    "vobsub" :> [name |-> "VobSub", minimum_ram_gb |-> 4,
        gpu_required |-> FALSE,
        notes |-> "Subtitle manipulation and rendering"] @@
    "valorant" :> [name |-> "Valorant", minimum_ram_gb |-> 8,
        gpu_required |-> TRUE,
        notes |-> "Riot Games tactical shooter (Vanguard anti-cheat prevents execution)"] @@
    "r6siege" :> [name |-> "Rainbow Six Siege", minimum_ram_gb |-> 8,
        gpu_required |-> TRUE,
        notes |-> "Ubisoft tactical shooter (BattlEye anti-cheat has limited compatibility)"] @@
    "battleye" :> [name |-> "BattlEye", minimum_ram_gb |-> 4,
        gpu_required |-> FALSE,
        notes |-> "BattlEye anti-cheat system (limited compatibility)"] @@
    "sharex" :> [name |-> "ShareX", minimum_ram_gb |-> 4,
        gpu_required |-> FALSE,
        notes |-> "Screenshot and screen recording utility"] @@
    "hwmonitor" :> [name |-> "HWMonitor", minimum_ram_gb |-> 4,
        gpu_required |-> FALSE,
        notes |-> "Hardware monitoring and temperature utility"]

\* what str.lower does to the letters A-Z
LowerOf ==
    ("A" :> "a") @@ ("B" :> "b") @@ ("C" :> "c") @@ ("D" :> "d") @@
    ("E" :> "e") @@ ("F" :> "f") @@ ("G" :> "g") @@ ("H" :> "h") @@
    ("I" :> "i") @@ ("J" :> "j") @@ ("K" :> "k") @@ ("L" :> "l") @@
    ("M" :> "m") @@ ("N" :> "n") @@ ("O" :> "o") @@ ("P" :> "p") @@
    ("Q" :> "q") @@ ("R" :> "r") @@ ("S" :> "s") @@ ("T" :> "t") @@
    ("U" :> "u") @@ ("V" :> "v") @@ ("W" :> "w") @@ ("X" :> "x") @@
    ("Y" :> "y") @@ ("Z" :> "z")

\* str.lower(), character by character
Lower(chars) ==
    [i \in 1..Len(chars) |->
        IF chars[i] \in DOMAIN LowerOf THEN LowerOf[chars[i]] ELSE chars[i]]

RECURSIVE JoinStr(_)
\* the str made of the characters
JoinStr(chars) ==
    IF chars = <<>> THEN "" ELSE Head(chars) \o JoinStr(Tail(chars))

NameInputs == KeySpellings \cup OtherSpellings

ApplicationsGet_Office(key) ==
    IF key \in DOMAIN InstallerClass THEN InstallerClass["office"] ELSE None

\* self.APPLICATIONS.get(key)
ApplicationsGet(key) ==
    IF key \in DOMAIN InstallerClass THEN InstallerClass[key] ELSE None

\* get_installer(name): the class looked up; if there is one, its constructor
\* creates <prefix>/applications and raises when that is not possible
GetInstallerResult(name, ok) ==
    LET cls == ApplicationsGet(JoinStr(Lower(name)))
    IN  IF cls = None THEN [kind |-> "none", cls |-> None]
        ELSE IF ok THEN [kind |-> "installer", cls |-> cls]
        ELSE [kind |-> "raised", cls |-> cls]

\* choices=[...] of the positional argument `app` of install-app
Choices == {"premiere", "vegas", "3dsmax", "office"}

Accepted_Any(name) == TRUE

\* argparse accepts the value of `app`
Accepted(name) == name \in Choices

\* the list cmd_install_app tests args.app against
Supported == {"premiere", "vegas", "3dsmax", "office"}

InitCatalog ==
    /\ app_name \in NameInputs
    /\ hasInstaller \in BOOLEAN
    /\ mkdirOk \in BOOLEAN
    /\ cpc = "call"
    /\ installer_class = None
    /\ returned = [kind |-> "pending", cls |-> None]
    /\ listing = <<>>
    /\ madeDirs = {}
    /\ installCalls = <<>>
    /\ output = <<>>
    /\ exitCode = NotExited
    /\ ResolverIdle
    /\ InstallIdle
    /\ EnvIdle
    /\ RegIdle
    /\ LaterIdle

\* ApplicationManager(prefix).get_installer(app_name)
GetInstaller ==
    /\ cpc = "call"
    /\ installer_class' = ApplicationsGet(JoinStr(Lower(app_name)))
    /\ returned' = GetInstallerResult(app_name, mkdirOk)
    /\ madeDirs' = IF returned'.kind = "installer" THEN {"applications"} ELSE {}
    /\ cpc' = "get_installer"
    /\ UNCHANGED <<app_name, hasInstaller, mkdirOk, listing, installCalls,
                   output, exitCode>>
    /\ UNCHANGED <<rvars, ivars, evars, gvars, yvars>>

\* ApplicationManager(prefix).list_applications()
ListApplications ==
    /\ cpc = "call"
    /\ listing' = [key \in {ApplicationsItems[i][1] :
                              i \in 1..Len(ApplicationsItems)} |-> Config[key]]
    /\ cpc' = "list_applications"
    /\ UNCHANGED <<app_name, hasInstaller, mkdirOk, installer_class, returned,
                   madeDirs, installCalls, output, exitCode>>
    /\ UNCHANGED <<rvars, ivars, evars, gvars, yvars>>

\* `winpatable install-app <app_name> [--installer <path>]`: parser.parse_args
ParseArgs ==
    /\ cpc = "call"
    /\ IF Accepted(JoinStr(app_name))
       THEN /\ cpc' = "install-app"
            /\ UNCHANGED <<output, exitCode>>
       ELSE /\ output' = <<[kind |-> "invalid choice", arg |-> JoinStr(app_name)]>>
            /\ exitCode' = 2
            /\ cpc' = "exit"
    /\ UNCHANGED <<app_name, hasInstaller, mkdirOk, installer_class, returned,
                   listing, madeDirs, installCalls>>
    /\ UNCHANGED <<rvars, ivars, evars, gvars, yvars>>

\* cmd_install_app(args) and the end of main: an exception that leaves the
\* command makes main exit with 1, otherwise the process ends with 0
CmdInstallApp ==
    /\ cpc = "install-app"
    /\ LET name == JoinStr(app_name)
           r == GetInstallerResult(app_name, mkdirOk)
       IN  IF name \notin Supported
           THEN /\ output' = <<[kind |-> "Unknown application", arg |-> name]>>
                /\ exitCode' = 0
                /\ UNCHANGED <<installer_class, returned, madeDirs, installCalls>>
           ELSE /\ installer_class' = ApplicationsGet(JoinStr(Lower(app_name)))
                /\ returned' = r
                /\ madeDirs' = IF r.kind = "installer" THEN {"applications"} ELSE {}
                /\ installCalls' =
                       IF r.kind = "installer" /\ hasInstaller
                       THEN <<[cls |-> r.cls, installer_path |-> "installer_path"]>>
                       ELSE <<>>
                /\ output' =
                       IF r.kind = "raised" THEN <<[kind |-> "Error", arg |-> name]>>
                       ELSE IF r.kind = "installer" /\ ~hasInstaller
                       THEN <<[kind |-> "Note", arg |-> name]>>
                       ELSE <<>>
                /\ exitCode' = IF r.kind = "raised" THEN 1 ELSE 0
    /\ cpc' = "exit"
    /\ UNCHANGED <<app_name, hasInstaller, mkdirOk, listing>>
    /\ UNCHANGED <<rvars, ivars, evars, gvars, yvars>>

CatalogNext ==
    \/ GetInstaller
    \/ ListApplications
    \/ ParseArgs
    \/ CmdInstallApp

SpecCatalog == InitCatalog /\ [][CatalogNext]_vars

\* the key a name stands for when capitalisation is ignored
RequestedKey == JoinStr(Lower(app_name))

\* C16 (as claimed): get_installer is case-insensitive, returns none for every
\* name absent from the catalog, and raises for no name, present or absent.
C16_NeverRaises ==
    cpc = "get_installer" =>
        /\ returned.kind # "raised"
        /\ RequestedKey \in CatalogKeys =>
              returned = [kind |-> "installer", cls |-> InstallerClass[RequestedKey]]
        /\ RequestedKey \notin CatalogKeys => returned.kind = "none"

\* C17: asking install-app for a name that is not in the catalog, whatever its
\* capitalisation, ends with the parser's error naming that name (exit status
\* 2), and looking such a name up returns none; on neither path is a directory
\* created or an installer called.
C17_UnknownRejectedUntouched ==
    RequestedKey \notin CatalogKeys =>
        /\ cpc = "exit" =>
              /\ exitCode = 2
              /\ output = <<[kind |-> "invalid choice", arg |-> JoinStr(app_name)]>>
        /\ cpc = "get_installer" => returned.kind = "none"
        /\ madeDirs = {}
        /\ installCalls = <<>>

\* install-app photoshop2 has been rejected
C17_Witness ==
    /\ cpc = "exit"
    /\ JoinStr(app_name) = "photoshop2"
    /\ RequestedKey \notin CatalogKeys
    /\ exitCode = 2
    /\ output[1].arg = "photoshop2"
    /\ madeDirs = {}

\* C18 (as claimed): install-app ends with exit code 0 exactly when an
\* installation was attempted, with a non-zero code for a name that is not in
\* the catalog, and it accepts every key of the catalog.
C18_ExitCodeIffAttempted ==
    cpc = "exit" =>
        /\ exitCode = 0 <=> installCalls # <<>>
        /\ RequestedKey \notin CatalogKeys => exitCode # 0
        /\ JoinStr(app_name) \in CatalogKeys =>
              \A i \in 1..Len(output) : output[i].kind # "invalid choice"

NoDuplicates(s) == \A i, j \in 1..Len(s) : i # j => s[i] # s[j]

\* C19: the keys of APPLICATIONS are pairwise distinct and lower-case, no
\* required_dlls and no required_dependencies list holds a duplicate, and the
\* lookup of a catalog key k finds the class registered under k.lower().
C19_KeysUniqueLookupExact ==
    /\ NoDuplicates([i \in 1..Len(ApplicationsItems) |-> ApplicationsItems[i][1]])
    /\ {ApplicationsItems[i][1] : i \in 1..Len(ApplicationsItems)} = CatalogKeys
    /\ \A k \in CatalogKeys :
          NoDuplicates(RequiredDlls[k]) /\ NoDuplicates(RequiredDependencies[k])
    /\ (cpc = "get_installer" /\ JoinStr(app_name) \in CatalogKeys) =>
          /\ RequestedKey = JoinStr(app_name)
          /\ \E i \in 1..Len(ApplicationsItems) :
                ApplicationsItems[i] = <<RequestedKey, installer_class>>
          /\ returned.kind = "installer" => returned.cls = installer_class

\* the key 3dsmax has been looked up
C19_Witness ==
    /\ cpc = "get_installer"
    /\ JoinStr(app_name) = "3dsmax"
    /\ installer_class = "Autodesk3DSMaxInstaller"
    /\ returned.kind = "installer"

\* what test_total_apps_count expects of len(list_applications())
TestTotalApps == 25

\* C20 (as claimed): list_applications returns exactly 25 applications, one
\* per catalog key.
C20_TwentyFiveApplications ==
    cpc = "list_applications" =>
        /\ Cardinality(DOMAIN listing) = TestTotalApps
        /\ DOMAIN listing = CatalogKeys

(***************************************************************************)
(* The Wine prefix (WineManager, src/src/wine/wine_manager.py):            *)
(* config.json and setup_complete_wine_environment                         *)
(***************************************************************************)
\* Python None, dict (items in insertion order), list and tuple
PyNone == [type |-> "NoneType"]

PyDict(items) == [type |-> "dict", items |-> items]

PyList(elems) == [type |-> "list", elems |-> elems]

PyTuple(elems) == [type |-> "tuple", elems |-> elems]

\* a dict item whose key is the str k
Item(k, v) == [key |-> PyStr(k), value |-> v]

DecDigits == <<"0", "1", "2", "3", "4", "5", "6", "7", "8", "9">>

RECURSIVE DecStr(_)
\* str(n) of a natural number
DecStr(n) ==
    IF n < 10 THEN DecDigits[n + 1]
    ELSE DecStr(n \div 10) \o DecDigits[(n % 10) + 1]

\* the member name json.dump writes for a dict key: a str as it is, an int in
\* decimal, a bool as true/false, None as null
KeyStr(k) ==
    CASE k.type = "str" -> k.s
      [] k.type = "int" ->
            (IF k.neg THEN "-" ELSE "") \o DecStr(k.hi * 65536 + k.lo)
      [] k.type = "bool" -> (IF k.lo = 1 THEN "true" ELSE "false")
      [] k.type = "NoneType" -> "null"

RECURSIVE Dumps(_)
\* json.dump: the JSON document of a Python value
Dumps(v) ==
    CASE v.type = "str" -> [json |-> "string", s |-> v.s]
      [] v.type = "int" ->
            [json |-> "number", neg |-> v.neg, hi |-> v.hi, lo |-> v.lo]
      [] v.type = "bool" -> [json |-> IF v.lo = 1 THEN "true" ELSE "false"]
      [] v.type = "NoneType" -> [json |-> "null"]
      [] v.type \in {"list", "tuple"} ->
            [json |-> "array",
             elems |-> [i \in 1..Len(v.elems) |-> Dumps(v.elems[i])]]
      [] v.type = "dict" ->
            [json |-> "object",
             members |-> [i \in 1..Len(v.items) |->
                            [name |-> KeyStr(v.items[i].key),
                             value |-> Dumps(v.items[i].value)]]]

\* d[key] = value on the items of a dict: an existing key keeps its place
PutItem(items, key, value) ==
    IF \E i \in 1..Len(items) : items[i].key = key
    THEN [i \in 1..Len(items) |->
            IF items[i].key = key THEN [key |-> key, value |-> value]
            ELSE items[i]]
    ELSE Append(items, [key |-> key, value |-> value])

RECURSIVE Loads(_)
RECURSIVE LoadMembers(_, _)
\* the items of the dict json.load builds from the members of an object
LoadMembers(members, n) ==
    IF n = 0 THEN <<>>
    ELSE PutItem(LoadMembers(members, n - 1), PyStr(members[n].name),
                 Loads(members[n].value))

\* json.load: the Python value of a JSON document
Loads(j) ==
    CASE j.json = "string" -> PyStr(j.s)
      [] j.json = "number" ->
            [type |-> "int", neg |-> j.neg, hi |-> j.hi, lo |-> j.lo]
      [] j.json = "true" -> PyBool(TRUE)
      [] j.json = "false" -> PyBool(FALSE)
      [] j.json = "null" -> PyNone
      [] j.json = "array" ->
            PyList([i \in 1..Len(j.elems) |-> Loads(j.elems[i])])
      [] j.json = "object" ->
            PyDict(LoadMembers(j.members, Len(j.members)))

\* the local `config` of configure_wine_prefix
WineDefaults ==
    PyDict(<<Item("DXVK", PyDict(<<Item("dxvk.hud", PyStr("off")),
                                   Item("dxvk.numCompilerThreads", PyStr("4"))>>)),
             Item("Wine", PyDict(<<Item("CSMT", PyStr("enabled")),
                                   Item("Staging", PyStr("enabled"))>>))>>)

\* test_config of test_config_save_load
TestConfig == PyDict(<<Item("test_key", PyStr("test_value"))>>)

\* the mappings written to config.json: subsystem name -> setting name ->
\* value, the test's flat mapping, and the empty mapping
ConfigInputs ==
    {WineDefaults, TestConfig, PyDict(<<>>),
     PyDict(<<Item("Wine", PyDict(<<Item("CSMT", PyStr("disabled")),
                                    Item("Threads", PyInt(4)),
                                    Item("Staging", PyBool(TRUE)),
                                    Item("Debug", PyNone)>>)),
              Item("DXVK", PyDict(<<>>))>>),
     PyDict(<<Item("Wine", PyDict(<<Item("Overrides",
                                         PyList(<<PyStr("d3d11"), PyStr("dxgi")>>))>>))>>)}

WriteFile_KeepOld(old, doc) == IF old = <<>> THEN <<doc>> ELSE old

\* `with open(self.config_file, 'w') as f: json.dump(config, f)`: the file
\* holds the new document and nothing of the old one
WriteFile(old, doc) == <<doc>>

RunsStep_ShortCircuit(ok) == ok

\* `success = self.step() and success`: the call is the left operand, so it
\* is made whatever `success` is
RunsStep(ok) == TRUE

InitWine ==
    /\ prefixDir \in BOOLEAN
    /\ config_file = <<>>
    /\ lastWritten = <<>>
    /\ loaded = <<>>
    /\ wcalls = 0
    /\ wpc = "ready"
    /\ attempted = <<>>
    /\ stepResults = <<>>
    /\ success = TRUE
    /\ setupResult = <<>>
    /\ ResolverIdle
    /\ InstallIdle
    /\ EnvIdle
    /\ RegIdle
    /\ CatalogIdle
    /\ UpdaterIdle
    /\ PerfIdle

\* _save_config(config): open raises when the prefix directory is missing
SaveConfig ==
    /\ wpc = "ready"
    /\ wcalls < MaxCalls
    /\ wcalls' = wcalls + 1
    /\ \E config \in ConfigInputs :
          IF prefixDir
          THEN /\ config_file' = WriteFile(config_file, Dumps(config))
               /\ lastWritten' = <<config>>
               /\ loaded' = <<>>
          ELSE UNCHANGED <<config_file, lastWritten, loaded>>
    /\ UNCHANGED <<prefixDir, wpc, attempted, stepResults, success, setupResult>>
    /\ UNCHANGED <<rvars, ivars, evars, gvars, cvars, uvars, pvars>>

\* load_config()
LoadConfig ==
    /\ wpc = "ready"
    /\ loaded' = <<IF config_file = <<>> THEN PyNone ELSE Loads(config_file[1])>>
    /\ UNCHANGED <<prefixDir, config_file, lastWritten, wcalls, wpc, attempted,
                   stepResults, success, setupResult>>
    /\ UNCHANGED <<rvars, ivars, evars, gvars, cvars, uvars, pvars>>

\* the body of configure_wine_prefix. boot: wineboot could be started (it may
\* create the prefix directory, made: the directory exists afterwards);
\* the method returns True when _save_config has written config.json
ConfigureBody(boot, made, ret) ==
    /\ made \in (IF boot THEN {prefixDir, TRUE} ELSE {prefixDir})
    /\ prefixDir' = made
    /\ ret = (boot /\ made)
    /\ IF ret
       THEN /\ config_file' = WriteFile(config_file, Dumps(WineDefaults))
            /\ lastWritten' = <<WineDefaults>>
            /\ loaded' = <<>>
       ELSE UNCHANGED <<config_file, lastWritten, loaded>>

\* configure_wine_prefix(), called on its own
ConfigureWinePrefix ==
    /\ wpc = "ready"
    /\ wcalls < MaxCalls
    /\ wcalls' = wcalls + 1
    /\ \E boot, made, ret \in BOOLEAN : ConfigureBody(boot, made, ret)
    /\ UNCHANGED <<wpc, attempted, stepResults, success, setupResult>>
    /\ UNCHANGED <<rvars, ivars, evars, gvars, cvars, uvars, pvars>>

\* setup_complete_wine_environment(): `success = True`
SetupEnter ==
    /\ wpc = "ready"
    /\ wcalls < MaxCalls
    /\ wcalls' = wcalls + 1
    /\ success' = TRUE
    /\ attempted' = <<>>
    /\ stepResults' = <<>>
    /\ setupResult' = <<>>
    /\ wpc' = "ensure_prefix_directory"
    /\ UNCHANGED <<prefixDir, config_file, lastWritten, loaded>>
    /\ UNCHANGED <<rvars, ivars, evars, gvars, cvars, uvars, pvars>>

\* the step `name` returned ret and the statement after it is `next`
StepReturns(name, ret, next) ==
    /\ attempted' = Append(attempted, name)
    /\ stepResults' = Append(stepResults, ret)
    /\ success' = (ret /\ success)
    /\ wpc' = next

\* the step is not called and the statement after it is `next`
StepSkipped(next) ==
    /\ wpc' = next
    /\ UNCHANGED <<attempted, stepResults, success>>

\* `success = self.ensure_prefix_directory() and success`
EnsurePrefixDirectory ==
    /\ wpc = "ensure_prefix_directory"
    /\ IF RunsStep(success)
       THEN \E ret \in (IF prefixDir THEN {TRUE} ELSE BOOLEAN) :
               /\ prefixDir' = ret
               /\ StepReturns("ensure_prefix_directory", ret,
                              "install_wine_dependencies")
       ELSE StepSkipped("install_wine_dependencies") /\ UNCHANGED prefixDir
    /\ UNCHANGED <<config_file, lastWritten, loaded, wcalls, setupResult>>
    /\ UNCHANGED <<rvars, ivars, evars, gvars, cvars, uvars, pvars>>

\* `success = self.install_wine_dependencies() and success`
InstallWineDependencies ==
    /\ wpc = "install_wine_dependencies"
    /\ IF RunsStep(success)
       THEN \E ret \in BOOLEAN :
               StepReturns("install_wine_dependencies", ret, "install_dxvk")
       ELSE StepSkipped("install_dxvk")
    /\ UNCHANGED <<prefixDir, config_file, lastWritten, loaded, wcalls, setupResult>>
    /\ UNCHANGED <<rvars, ivars, evars, gvars, cvars, uvars, pvars>>

\* `success = self.install_dxvk() and success`: dxvk_dir.mkdir raises when the
\* prefix directory is missing, subprocess.run when wget or tar is
InstallDxvk ==
    /\ wpc = "install_dxvk"
    /\ IF RunsStep(success)
       THEN \E ret \in (IF prefixDir THEN BOOLEAN ELSE {FALSE}) :
               StepReturns("install_dxvk", ret, "install_vkd3d")
       ELSE StepSkipped("install_vkd3d")
    /\ UNCHANGED <<prefixDir, config_file, lastWritten, loaded, wcalls, setupResult>>
    /\ UNCHANGED <<rvars, ivars, evars, gvars, cvars, uvars, pvars>>

\* `success = self.install_vkd3d() and success`
InstallVkd3d ==
    /\ wpc = "install_vkd3d"
    /\ IF RunsStep(success)
       THEN \E ret \in BOOLEAN :
               StepReturns("install_vkd3d", ret, "install_proton")
       ELSE StepSkipped("install_proton")
    /\ UNCHANGED <<prefixDir, config_file, lastWritten, loaded, wcalls, setupResult>>
    /\ UNCHANGED <<rvars, ivars, evars, gvars, cvars, uvars, pvars>>

\* `success = self.install_proton() and success`
InstallProton ==
    /\ wpc = "install_proton"
    /\ IF RunsStep(success)
       THEN \E ret \in (IF prefixDir THEN BOOLEAN ELSE {FALSE}) :
               StepReturns("install_proton", ret, "configure_wine_prefix")
       ELSE StepSkipped("configure_wine_prefix")
    /\ UNCHANGED <<prefixDir, config_file, lastWritten, loaded, wcalls, setupResult>>
    /\ UNCHANGED <<rvars, ivars, evars, gvars, cvars, uvars, pvars>>

\* `success = self.configure_wine_prefix() and success`
ConfigureStep ==
    /\ wpc = "configure_wine_prefix"
    /\ IF RunsStep(success)
       THEN \E boot, made, ret \in BOOLEAN :
               /\ ConfigureBody(boot, made, ret)
               /\ StepReturns("configure_wine_prefix", ret, "install_windows_fonts")
       ELSE /\ StepSkipped("install_windows_fonts")
            /\ UNCHANGED <<prefixDir, config_file, lastWritten, loaded>>
    /\ UNCHANGED <<wcalls, setupResult>>
    /\ UNCHANGED <<rvars, ivars, evars, gvars, cvars, uvars, pvars>>

\* `success = self.install_windows_fonts() and success`
InstallWindowsFonts ==
    /\ wpc = "install_windows_fonts"
    /\ IF RunsStep(success)
       THEN \E ret \in BOOLEAN :
               StepReturns("install_windows_fonts", ret, "setup_d3d_wrappers")
       ELSE StepSkipped("setup_d3d_wrappers")
    /\ UNCHANGED <<prefixDir, config_file, lastWritten, loaded, wcalls, setupResult>>
    /\ UNCHANGED <<rvars, ivars, evars, gvars, cvars, uvars, pvars>>

\* `success = self.setup_d3d_wrappers() and success`
SetupD3dWrappers ==
    /\ wpc = "setup_d3d_wrappers"
    /\ IF RunsStep(success)
       THEN \E ret \in BOOLEAN :
               StepReturns("setup_d3d_wrappers", ret, "return")
       ELSE StepSkipped("return")
    /\ UNCHANGED <<prefixDir, config_file, lastWritten, loaded, wcalls, setupResult>>
    /\ UNCHANGED <<rvars, ivars, evars, gvars, cvars, uvars, pvars>>

\* `return success`
SetupReturn ==
    /\ wpc = "return"
    /\ setupResult' = <<success>>
    /\ wpc' = "ready"
    /\ UNCHANGED <<prefixDir, config_file, lastWritten, loaded, wcalls, attempted,
                   stepResults, success>>
    /\ UNCHANGED <<rvars, ivars, evars, gvars, cvars, uvars, pvars>>

WineNext ==
    \/ SaveConfig
    \/ LoadConfig
    \/ ConfigureWinePrefix
    \/ SetupEnter
    \/ EnsurePrefixDirectory
    \/ InstallWineDependencies
    \/ InstallDxvk
    \/ InstallVkd3d
    \/ InstallProton
    \/ ConfigureStep
    \/ InstallWindowsFonts
    \/ SetupD3dWrappers
    \/ SetupReturn

SpecWine == InitWine /\ [][WineNext]_vars

\* C21: load_config returns exactly the mapping of the most recent write to
\* the prefix (_save_config or configure_wine_prefix), and None if nothing
\* was ever written.
C21_LoadIsLastWrite ==
    loaded # <<>> =>
        loaded[1] = (IF lastWritten = <<>> THEN PyNone ELSE lastWritten[1])

\* configure_wine_prefix wrote last, after other calls, and was read back
C21_Witness ==
    /\ wcalls = MaxCalls
    /\ lastWritten = <<WineDefaults>>
    /\ loaded = <<WineDefaults>>
    /\ loaded[1].items[2].value.items[1] = Item("CSMT", PyStr("enabled"))

\* the order of the eight steps the claim names
ExpectedSetupOrder ==
    <<"ensure_prefix_directory", "install_wine_dependencies", "install_dxvk",
      "install_vkd3d", "install_proton", "configure_wine_prefix",
      "install_windows_fonts", "setup_d3d_wrappers">>

\* C24: setup_complete_wine_environment attempts the eight steps in the fixed
\* order whatever the earlier ones returned, and returns True exactly if
\* every one of them returned True.
C24_AllEightInOrder ==
    /\ Len(attempted) <= 8
    /\ attempted = SubSeq(ExpectedSetupOrder, 1, Len(attempted))
    /\ setupResult # <<>> =>
          /\ attempted = ExpectedSetupOrder
          /\ setupResult[1] = (\A i \in 1..8 : stepResults[i])

\* the first step failed, all eight were attempted, the setup returned False
C24_Witness ==
    /\ setupResult = <<FALSE>>
    /\ Len(attempted) = 8
    /\ stepResults[1] = FALSE
    /\ stepResults[8] = TRUE

(***************************************************************************)
(* The updater (auto_update and UpdateChecker, src/src/core/updater.py)    *)
(***************************************************************************)
DEFAULT_SECURITY_INTERVAL_DAYS == 7

DEFAULT_FEATURE_INTERVAL_DAYS == 30

\* _seconds_days(days)
SecondsDays(days) == days * 24 * 60 * 60

\* the clock when the behaviour begins: later than both default intervals
StartTime == SecondsDays(40)

\* what load_updater_config returns when updater.json cannot be read
DefaultConfig ==
    [last_check_security |-> 0,
     last_check_feature |-> 0,
     security_interval_days |-> DEFAULT_SECURITY_INTERVAL_DAYS,
     feature_interval_days |-> DEFAULT_FEATURE_INTERVAL_DAYS]

\* the updater.json files a behaviour begins with: none, or one whose last
\* checks are a day old or older than their interval
StoredConfigs ==
    {<<>>} \cup
    {<<[DefaultConfig EXCEPT !.last_check_security = StartTime - SecondsDays(s),
                             !.last_check_feature = StartTime - SecondsDays(f)]>> :
        s \in {1, 8}, f \in {1, 31}}

\* load_updater_config()
LoadUpdaterConfig(file) == IF file = <<>> THEN DefaultConfig ELSE file[1]

Modes == {"auto", "security", "feature"}

\* the arguments of auto_update (verbose only prints) and sys.stdin.isatty()
ArgSets ==
    [check_only : BOOLEAN, mode : Modes, force : BOOLEAN, isatty : BOOLEAN]

Elapsed_Always(t, last, days) == TRUE

\* `now - last >= _seconds_days(interval)`
Elapsed(t, last, days) == t - last >= SecondsDays(days)

\* lines 229-245: which checks this call performs
Scheduled(mode, c, t) ==
    IF mode = "security" THEN [security |-> TRUE, feature |-> FALSE]
    ELSE IF mode = "feature" THEN [security |-> FALSE, feature |-> TRUE]
    ELSE [security |-> Elapsed(t, c.last_check_security, c.security_interval_days),
          feature |-> Elapsed(t, c.last_check_feature, c.feature_interval_days)]

Stamp_SecurityOnly(c, perf, t) ==
    [c EXCEPT !.last_check_security = IF perf.security THEN t ELSE @]

\* `if perform_security: cfg['last_check_security'] = now` and the same for
\* feature
Stamp(c, perf, t) ==
    [c EXCEPT !.last_check_security = IF perf.security THEN t ELSE @,
              !.last_check_feature = IF perf.feature THEN t ELSE @]

\* `if is_sec: cfg['last_check_security'] = now else: ..._feature = now`
StampOne(c, is_sec, t) ==
    IF is_sec THEN [c EXCEPT !.last_check_security = t]
    ELSE [c EXCEPT !.last_check_feature = t]

\* what a request to the GitHub API can bring: no answer, the release that is
\* installed, or a newer release that is_security_release classifies as a
\* security or as a feature release
CheckOutcomes == {"unreachable", "same", "security", "feature"}

\* check_for_updates(): True for a newer release, False otherwise
CheckForUpdates(outcome) == outcome \in {"security", "feature"}

StopsAfterCheck_Never(check_only) == FALSE

\* `if check_only:` at line 267
StopsAfterCheck(check_only) == check_only

\* the version an update would install
NewVersion == 2 + ucalls

InitUpdater ==
    /\ updater_json \in StoredConfigs
    /\ now = StartTime
    /\ uticks = 0
    /\ ucalls = 0
    /\ upc = "ready"
    /\ uargs = NoArgs
    /\ perform = [security |-> FALSE, feature |-> FALSE]
    /\ ucfg = <<>>
    /\ release = <<>>
    /\ contacted = 0
    /\ downloads = 0
    /\ install_dir \in {Absent, 2}
    /\ backup_dir \in {Absent, 1}
    /\ atCall = <<>>
    /\ autoResult = ""
    /\ ResolverIdle
    /\ InstallIdle
    /\ EnvIdle
    /\ RegIdle
    /\ CatalogIdle
    /\ WineIdle
    /\ PerfIdle

\* time passes between two calls: a day or a week
Tick ==
    /\ upc = "ready"
    /\ uticks < MaxTicks
    /\ uticks' = uticks + 1
    /\ \E days \in {1, 7} : now' = now + SecondsDays(days)
    /\ UNCHANGED <<updater_json, ucalls, upc, uargs, perform, ucfg, release,
                   contacted, downloads, install_dir, backup_dir, atCall,
                   autoResult>>
    /\ UNCHANGED <<rvars, ivars, evars, gvars, cvars, wvars, pvars>>

\* the call returns `value`; `save` tells whether cfg was saved before
Return(c, save, value) ==
    /\ ucfg' = c
    /\ updater_json' = IF save THEN <<c>> ELSE updater_json
    /\ autoResult' = value
    /\ upc' = "ready"

\* auto_update(check_only, mode, force), lines 223-254
AutoEnter ==
    /\ upc = "ready"
    /\ ucalls < MaxUpdates
    /\ ucalls' = ucalls + 1
    /\ \E a \in ArgSets :
          LET c == LoadUpdaterConfig(updater_json)
              p == Scheduled(a.mode, c, now)
          IN  /\ uargs' = a
              /\ perform' = p
              /\ IF ~(p.security \/ p.feature)
                 THEN Return(c, FALSE, "True")
                 ELSE /\ ucfg' = c
                      /\ upc' = "check"
                      /\ autoResult' = ""
                      /\ UNCHANGED updater_json
    /\ release' = <<>>
    /\ contacted' = 0
    /\ downloads' = 0
    /\ atCall' = [json |-> updater_json, install |-> install_dir,
                  backup |-> backup_dir, time |-> now]
    /\ UNCHANGED <<now, uticks, install_dir, backup_dir>>
    /\ UNCHANGED <<rvars, ivars, evars, gvars, cvars, wvars, pvars>>

\* `if checker.check_for_updates():` and what follows up to the prompt,
\* lines 260-275 and 303-324
AutoCheck ==
    /\ upc = "check"
    /\ contacted' = contacted + 1
    /\ \E outcome \in CheckOutcomes :
          LET is_sec == outcome = "security"
              applies == \/ is_sec /\ perform.security
                         \/ ~is_sec /\ perform.feature
          IN  /\ release' = IF outcome = "unreachable" THEN <<>>
                            ELSE <<[newer |-> CheckForUpdates(outcome),
                                    is_sec |-> is_sec]>>
              /\ IF ~CheckForUpdates(outcome) \/ ~applies
                 THEN Return(Stamp(ucfg, perform, now), TRUE, "True")
                 ELSE IF StopsAfterCheck(uargs.check_only)
                 THEN Return(StampOne(ucfg, is_sec, now), TRUE, "True")
                 ELSE /\ upc' = IF ~uargs.force /\ uargs.isatty
                                THEN "prompt" ELSE "download"
                      /\ UNCHANGED <<ucfg, updater_json, autoResult>>
    /\ UNCHANGED <<now, uticks, ucalls, uargs, perform, downloads, install_dir,
                   backup_dir, atCall>>
    /\ UNCHANGED <<rvars, ivars, evars, gvars, cvars, wvars, pvars>>

\* `response = input(...)`, lines 277-287: the answer y, another answer, or
\* end of input, which raises EOFError into `except Exception: return False`
AutoPrompt ==
    /\ upc = "prompt"
    /\ \E response \in {"y", "n", "EOF"} :
          IF response = "y"
          THEN /\ upc' = "download"
               /\ UNCHANGED <<ucfg, updater_json, autoResult>>
          ELSE IF response = "EOF"
          THEN Return(ucfg, FALSE, "False")
          ELSE Return(StampOne(ucfg, release[1].is_sec, now), TRUE, "True")
    /\ UNCHANGED <<now, uticks, ucalls, uargs, perform, release, contacted,
                   downloads, install_dir, backup_dir, atCall>>
    /\ UNCHANGED <<rvars, ivars, evars, gvars, cvars, wvars, pvars>>

\* os.path.exists(directory)
Exists(dir) == dir # Absent

NeedsBackup_Never(exists) == FALSE

\* `if os.path.exists(install_dir):` at line 159, which guards the backup
NeedsBackup(exists) == exists

\* the step after the backup, lines 165-167
ReplaceStep == IF Exists(install_dir) THEN "rm_install" ELSE "copy_install"

\* checker.download_and_extract_update(), lines 124-162: the archive is
\* downloaded and extracted into a temporary directory, unless the download
\* or the extraction raises or the archive is empty (lines 173-176, then
\* lines 300-302 of auto_update)
Download ==
    /\ upc = "download"
    /\ downloads' = downloads + 1
    /\ \E fetched \in BOOLEAN :
          IF fetched
          THEN /\ upc' = IF NeedsBackup(Exists(install_dir))
                         THEN IF Exists(backup_dir) THEN "rm_backup"
                              ELSE "copy_backup"
                         ELSE ReplaceStep
               /\ UNCHANGED <<ucfg, updater_json, autoResult>>
          ELSE Return(ucfg, FALSE, "False")
    /\ UNCHANGED <<now, uticks, ucalls, uargs, perform, release, contacted,
                   install_dir, backup_dir, atCall>>
    /\ UNCHANGED <<rvars, ivars, evars, gvars, cvars, wvars, pvars>>

\* shutil.rmtree(backup_dir), line 161: it begins, then it ends
BackupRemove ==
    /\ \/ /\ upc = "rm_backup"
          /\ backup_dir' = Partial
          /\ upc' = "rm_backup_end"
       \/ /\ upc = "rm_backup_end"
          /\ backup_dir' = Absent
          /\ upc' = "copy_backup"
    /\ UNCHANGED <<updater_json, now, uticks, ucalls, uargs, perform, ucfg,
                   release, contacted, downloads, install_dir, atCall,
                   autoResult>>
    /\ UNCHANGED <<rvars, ivars, evars, gvars, cvars, wvars, pvars>>

\* shutil.copytree(install_dir, backup_dir), line 162
BackupCopy ==
    /\ \/ /\ upc = "copy_backup"
          /\ backup_dir' = Partial
          /\ upc' = "copy_backup_end"
       \/ /\ upc = "copy_backup_end"
          /\ backup_dir' = install_dir
          /\ upc' = ReplaceStep
    /\ UNCHANGED <<updater_json, now, uticks, ucalls, uargs, perform, ucfg,
                   release, contacted, downloads, install_dir, atCall,
                   autoResult>>
    /\ UNCHANGED <<rvars, ivars, evars, gvars, cvars, wvars, pvars>>

\* shutil.rmtree(install_dir), line 167
InstallRemove ==
    /\ \/ /\ upc = "rm_install"
          /\ install_dir' = Partial
          /\ upc' = "rm_install_end"
       \/ /\ upc = "rm_install_end"
          /\ install_dir' = Absent
          /\ upc' = "copy_install"
    /\ UNCHANGED <<updater_json, now, uticks, ucalls, uargs, perform, ucfg,
                   release, contacted, downloads, backup_dir, atCall,
                   autoResult>>
    /\ UNCHANGED <<rvars, ivars, evars, gvars, cvars, wvars, pvars>>

\* shutil.copytree(src_dir, install_dir), line 168, then `return True` and
\* lines 290-299 of auto_update
InstallCopy ==
    /\ \/ /\ upc = "copy_install"
          /\ install_dir' = Partial
          /\ upc' = "copy_install_end"
          /\ UNCHANGED <<ucfg, updater_json, autoResult>>
       \/ /\ upc = "copy_install_end"
          /\ install_dir' = NewVersion
          /\ Return(StampOne(ucfg, release[1].is_sec, now), TRUE, "True")
    /\ UNCHANGED <<now, uticks, ucalls, uargs, perform, release, contacted,
                   downloads, backup_dir, atCall>>
    /\ UNCHANGED <<rvars, ivars, evars, gvars, cvars, wvars, pvars>>

UpdatePcs ==
    {"rm_backup", "rm_backup_end", "copy_backup", "copy_backup_end",
     "rm_install", "rm_install_end", "copy_install", "copy_install_end"}

\* rmtree or copytree raises where it stands: lines 173-175, then lines
\* 300-302 of auto_update
UpdateFails ==
    /\ upc \in UpdatePcs
    /\ Return(ucfg, FALSE, "False")
    /\ UNCHANGED <<now, uticks, ucalls, uargs, perform, release, contacted,
                   downloads, install_dir, backup_dir, atCall>>
    /\ UNCHANGED <<rvars, ivars, evars, gvars, cvars, wvars, pvars>>

UpdaterNext ==
    \/ Tick
    \/ AutoEnter
    \/ AutoCheck
    \/ AutoPrompt
    \/ Download
    \/ BackupRemove
    \/ BackupCopy
    \/ InstallRemove
    \/ InstallCopy
    \/ UpdateFails

SpecUpdater == InitUpdater /\ [][UpdaterNext]_vars

\* C23: with check_only set, no call downloads or installs anything, and the
\* installation directory stays as it was when the call began
C23_CheckOnlyInstallsNothing ==
    (ucalls > 0 /\ uargs.check_only) =>
        /\ downloads = 0
        /\ upc \notin UpdatePcs \cup {"download", "prompt"}
        /\ install_dir = atCall.install
        /\ backup_dir = atCall.backup

C23_Witness ==
    /\ ucalls > 0
    /\ uargs.check_only
    /\ uargs.force
    /\ upc = "ready"
    /\ release = <<[newer |-> TRUE, is_sec |-> TRUE]>>
    /\ perform.security
    /\ autoResult = "True"
    /\ install_dir = 2

\* C22: a call returns False exactly when it attempted an installation that
\* failed
C22_FalseIffInstallFailed ==
    (ucalls > 0 /\ upc = "ready") =>
        (autoResult = "False" <=> (downloads > 0 /\ install_dir # NewVersion))

\* C28: an auto-mode call made before either interval has elapsed returns
\* True, contacts nobody and leaves updater.json as it was
C28_NothingDueNothingDone ==
    LET c == LoadUpdaterConfig(atCall.json)
    IN  (/\ ucalls > 0
         /\ uargs.mode = "auto"
         /\ atCall.time - c.last_check_security
                < SecondsDays(c.security_interval_days)
         /\ atCall.time - c.last_check_feature
                < SecondsDays(c.feature_interval_days))
        => /\ upc = "ready"
           /\ autoResult = "True"
           /\ contacted = 0
           /\ downloads = 0
           /\ updater_json = atCall.json

C28_Witness ==
    /\ ucalls = 1
    /\ uargs.mode = "auto"
    /\ upc = "ready"
    /\ contacted = 0
    /\ autoResult = "True"
    /\ updater_json # <<>>
    /\ updater_json[1].last_check_security = StartTime - SecondsDays(1)
    /\ updater_json[1].last_check_feature = StartTime - SecondsDays(1)
    /\ now = StartTime + SecondsDays(1)

Complete(dir) == dir >= 1

\* C30: when the installation was complete as the call began, then at every
\* point of the update, and after it has failed at any step, the installation
\* directory or the backup directory holds a complete copy of the previous or
\* of the new version
C30_AlwaysOneCompleteCopy ==
    (ucalls > 0 /\ Complete(atCall.install)) =>
        \/ install_dir \in {atCall.install, NewVersion}
        \/ backup_dir \in {atCall.install, NewVersion}

C30_Witness ==
    /\ ucalls > 0
    /\ upc = "ready"
    /\ autoResult = "False"
    /\ atCall.install = 2
    /\ atCall.backup = 1
    /\ install_dir = Partial
    /\ backup_dir = 2

(***************************************************************************)
(* PerformanceCache (src/src/core/performance.py)                          *)
(***************************************************************************)
\* the keys and values the callers use, and the max_age_hours they pass
Keys == {"a", "b"}

CacheValues == {PyInt(1), PyInt(2)}

MaxAges == {0, 1}

\* invalidate's argument: a key, or "" for the default None
InvalidateArgs == Keys \cup {""}

\* datetime.now().isoformat(): the date and the time of day, `t` in hours
IsoFormat(t) == [date |-> t \div 24, hour |-> t % 24]

\* datetime.fromisoformat(s), in hours
FromIsoFormat(s) == s.date * 24 + s.hour

\* timedelta(hours=h), in hours
Timedelta(h) == h

\* the cache of a new object whose perf_cache.json does not exist
EmptyCache == [k \in Keys |-> <<>>]

Expired_AtLimit(age, max_age_hours) == age >= Timedelta(max_age_hours)

\* `age > timedelta(hours=max_age_hours)`
Expired(age, max_age_hours) == age > Timedelta(max_age_hours)

\* get(key, max_age_hours) at time t: the cache it leaves and what it returns
CacheGet(c, k, max_age_hours, t) ==
    IF c[k] = <<>> THEN [cache |-> c, value |-> PyNone]
    ELSE IF Expired(t - FromIsoFormat(c[k][1].timestamp), max_age_hours)
    THEN [cache |-> [c EXCEPT ![k] = <<>>], value |-> PyNone]
    ELSE [cache |-> c, value |-> c[k][1].value]

\* set(key, value) at time t
CacheSet(c, k, v, t) ==
    [c EXCEPT ![k] = <<[value |-> v, timestamp |-> IsoFormat(t)]>>]

\* invalidate(key): `if key:` pops the key, else clears the cache
CacheInvalidate(c, k) ==
    IF k # "" THEN [c EXCEPT ![k] = <<>>] ELSE EmptyCache

\* one call, as the history keeps it
Call(op, k, v, max_age_hours, t) ==
    [op |-> op, key |-> k, value |-> v, max |-> max_age_hours, time |-> t]

InitCache ==
    /\ cache = EmptyCache
    /\ pclock = 0
    /\ phist = <<>>
    /\ got = <<>>
    /\ CachedIdle
    /\ BenchmarkIdle
    /\ ResolverIdle
    /\ InstallIdle
    /\ EnvIdle
    /\ RegIdle
    /\ CatalogIdle
    /\ WineIdle
    /\ UpdaterIdle

\* an hour passes
CacheTick ==
    /\ pclock < MaxHours
    /\ pclock' = pclock + 1
    /\ UNCHANGED <<cache, phist, got>>
    /\ UNCHANGED <<rvars, ivars, evars, gvars, cvars, wvars, uvars, dvars, bvars>>

\* PerformanceCache.get(key, max_age_hours)
PerformanceCacheGet ==
    /\ Len(phist) < MaxOps
    /\ \E k \in Keys, m \in MaxAges :
          LET r == CacheGet(cache, k, m, pclock)
          IN  /\ cache' = r.cache
              /\ got' = <<r.value>>
              /\ phist' = Append(phist, Call("get", k, PyNone, m, pclock))
    /\ UNCHANGED pclock
    /\ UNCHANGED <<rvars, ivars, evars, gvars, cvars, wvars, uvars, dvars, bvars>>

\* PerformanceCache.set(key, value)
PerformanceCacheSet ==
    /\ Len(phist) < MaxOps
    /\ \E k \in Keys, v \in CacheValues :
          /\ cache' = CacheSet(cache, k, v, pclock)
          /\ phist' = Append(phist, Call("set", k, v, 0, pclock))
    /\ UNCHANGED <<pclock, got>>
    /\ UNCHANGED <<rvars, ivars, evars, gvars, cvars, wvars, uvars, dvars, bvars>>

\* PerformanceCache.invalidate(key)
PerformanceCacheInvalidate ==
    /\ Len(phist) < MaxOps
    /\ \E k \in InvalidateArgs :
          /\ cache' = CacheInvalidate(cache, k)
          /\ phist' = Append(phist, Call("invalidate", k, PyNone, 0, pclock))
    /\ UNCHANGED <<pclock, got>>
    /\ UNCHANGED <<rvars, ivars, evars, gvars, cvars, wvars, uvars, dvars, bvars>>

CacheNext ==
    \/ CacheTick
    \/ PerformanceCacheGet
    \/ PerformanceCacheSet
    \/ PerformanceCacheInvalidate

SpecCache == InitCache /\ [][CacheNext]_vars

RECURSIVE Live(_, _)
\* the set of key k that still counts after the calls h: the most recent one,
\* unless k, or everything, was invalidated since, or a get has since found it
\* older than its max_age_hours
Live(h, k) ==
    IF h = <<>> THEN <<>>
    ELSE LET e == h[Len(h)]
             before == Live(SubSeq(h, 1, Len(h) - 1), k)
         IN  IF e.op = "set" /\ e.key = k THEN <<e>>
             ELSE IF e.op = "invalidate" /\ e.key \in {k, ""} THEN <<>>
             ELSE IF /\ e.op = "get"
                     /\ e.key = k
                     /\ before # <<>>
                     /\ e.time - before[1].time > e.max
             THEN <<>>
             ELSE before

\* C25: get(k, max_age_hours) returns the value of the most recent set of k
\* that has not been invalidated or found expired since, if its age is at most
\* max_age_hours, and None otherwise
C25_GetFollowsHistory ==
    (phist # <<>> /\ phist[Len(phist)].op = "get") =>
        LET e == phist[Len(phist)]
            l == Live(SubSeq(phist, 1, Len(phist) - 1), e.key)
        IN  got = <<IF l # <<>> /\ e.time - l[1].time <= e.max
                    THEN l[1].value ELSE PyNone>>

C25_Witness ==
    /\ Len(phist) = 3
    /\ phist[1] = Call("set", "a", PyInt(2), 0, 0)
    /\ phist[2] = Call("get", "a", PyNone, 0, 1)
    /\ phist[3] = Call("get", "a", PyNone, 1, 1)
    /\ got = <<PyNone>>
    /\ cache["a"] = <<>>

(***************************************************************************)
(* The cached decorator (src/src/core/performance.py)                      *)
(***************************************************************************)
\* the wrapped functions, called without arguments: f returns 1 and g
\* returns None
WrappedFunctions == {"f", "g"}

FuncResult(func) == IF func = "f" THEN PyInt(1) ELSE PyNone

\* cached(max_age_hours=1)
DecoratorMaxAge == 1

\* f"{func.__name__}:{str(args)}:{str(kwargs)}" with args = () and kwargs = {}
CacheKey(func) == func \o ":" \o "()" \o ":" \o "{}"

\* `if result is not None:`
IsNotNone(v) == v # PyNone

InitCached ==
    /\ wrapped = [k \in {CacheKey(func) : func \in WrappedFunctions} |-> <<>>]
    /\ dclock = 0
    /\ runs = [func \in WrappedFunctions |-> <<>>]
    /\ dret = <<>>
    /\ CacheIdle
    /\ BenchmarkIdle
    /\ ResolverIdle
    /\ InstallIdle
    /\ EnvIdle
    /\ RegIdle
    /\ CatalogIdle
    /\ WineIdle
    /\ UpdaterIdle

\* an hour passes
CachedTick ==
    /\ dclock < MaxHours
    /\ dclock' = dclock + 1
    /\ UNCHANGED <<wrapped, runs, dret>>
    /\ UNCHANGED <<rvars, ivars, evars, gvars, cvars, wvars, uvars, pcvars, bvars>>

\* wrapper(*args, **kwargs), lines 151-164
Wrapper ==
    /\ Len(dret) < MaxOps
    /\ \E func \in WrappedFunctions :
          LET r == CacheGet(wrapped, CacheKey(func), DecoratorMaxAge, dclock)
          IN  IF IsNotNone(r.value)
              THEN /\ wrapped' = r.cache
                   /\ dret' = Append(dret, [func |-> func, value |-> r.value])
                   /\ UNCHANGED runs
              ELSE /\ runs' = [runs EXCEPT ![func] = Append(@, dclock)]
                   /\ wrapped' = CacheSet(r.cache, CacheKey(func),
                                          FuncResult(func), dclock)
                   /\ dret' = Append(dret, [func |-> func,
                                          value |-> FuncResult(func)])
    /\ UNCHANGED dclock
    /\ UNCHANGED <<rvars, ivars, evars, gvars, cvars, wvars, uvars, pcvars, bvars>>

CachedNext ==
    \/ CachedTick
    \/ Wrapper

SpecCached == InitCached /\ [][CachedNext]_vars

\* C26: a wrapped function runs at most once within max_age_hours, whatever
\* it returns: two runs of the same function are more than max_age_hours apart
C26_RunsOncePerWindow ==
    \A func \in WrappedFunctions :
        \A i, j \in 1..Len(runs[func]) :
            i < j => runs[func][j] - runs[func][i] > DecoratorMaxAge

(***************************************************************************)
(* PerformanceBenchmark (src/src/core/performance.py)                      *)
(***************************************************************************)
\* the metric names the callers use
MetricNames == {"x", "y"}

\* `name not in self.start_times` is false
HasPending(st, name) == st[name] # <<>>

AfterEnd_Keep(st, name) == st

\* `del self.start_times[name]`
AfterEnd(st, name) == [st EXCEPT ![name] = <<>>]

InitBenchmark ==
    /\ start_times = [n \in MetricNames |-> <<>>]
    /\ metrics = [n \in MetricNames |-> <<>>]
    /\ bclock = 0
    /\ bhist = <<>>
    /\ ended = <<>>
    /\ CacheIdle
    /\ CachedIdle
    /\ ResolverIdle
    /\ InstallIdle
    /\ EnvIdle
    /\ RegIdle
    /\ CatalogIdle
    /\ WineIdle
    /\ UpdaterIdle

\* time passes
BenchmarkTick ==
    /\ bclock < MaxHours
    /\ bclock' = bclock + 1
    /\ UNCHANGED <<start_times, metrics, bhist, ended>>
    /\ UNCHANGED <<rvars, ivars, evars, gvars, cvars, wvars, uvars, pcvars, dvars>>

\* PerformanceBenchmark.start(name)
BenchmarkStart ==
    /\ Len(bhist) < MaxTimings
    /\ \E n \in MetricNames :
          /\ start_times' = [start_times EXCEPT ![n] = <<bclock>>]
          /\ bhist' = Append(bhist, [op |-> "start", name |-> n])
    /\ UNCHANGED <<metrics, bclock, ended>>
    /\ UNCHANGED <<rvars, ivars, evars, gvars, cvars, wvars, uvars, pcvars, dvars>>

\* PerformanceBenchmark.end(name)
BenchmarkEnd ==
    /\ Len(bhist) < MaxTimings
    /\ \E n \in MetricNames :
          /\ bhist' = Append(bhist, [op |-> "end", name |-> n])
          /\ IF ~HasPending(start_times, n)
             THEN /\ ended' = <<0>>
                  /\ UNCHANGED <<start_times, metrics>>
             ELSE LET elapsed == bclock - start_times[n][1]
                  IN  /\ metrics' = [metrics EXCEPT ![n] = Append(@, elapsed)]
                      /\ start_times' = AfterEnd(start_times, n)
                      /\ ended' = <<elapsed>>
    /\ UNCHANGED bclock
    /\ UNCHANGED <<rvars, ivars, evars, gvars, cvars, wvars, uvars, pcvars, dvars>>

BenchmarkNext ==
    \/ BenchmarkTick
    \/ BenchmarkStart
    \/ BenchmarkEnd

SpecBenchmark == InitBenchmark /\ [][BenchmarkNext]_vars

\* get_stats(name)['count'], 0 standing for the empty result
StatsCount(m, name) == Len(m[name])

RECURSIVE Tally(_, _)
\* what the calls h prescribe for a name: whether a start is pending, and how
\* many end calls found a pending start
Tally(h, name) ==
    IF h = <<>> THEN [pending |-> FALSE, samples |-> 0]
    ELSE LET e == h[Len(h)]
             before == Tally(SubSeq(h, 1, Len(h) - 1), name)
         IN  IF e.name # name THEN before
             ELSE IF e.op = "start" THEN [before EXCEPT !.pending = TRUE]
             ELSE IF before.pending
             THEN [pending |-> FALSE, samples |-> before.samples + 1]
             ELSE before

\* C27: the samples recorded for a name are as many as the end calls that
\* found a pending start of that name; a start is pending after a start and
\* until the next end, however often start was repeated; an end without a
\* pending start returns 0.0 and records nothing
C27_SamplesCountMatchedEnds ==
    /\ \A n \in MetricNames :
          /\ StatsCount(metrics, n) = Tally(bhist, n).samples
          /\ HasPending(start_times, n) = Tally(bhist, n).pending
    /\ (bhist # <<>> /\ bhist[Len(bhist)].op = "end") =>
          LET e == bhist[Len(bhist)]
              before == Tally(SubSeq(bhist, 1, Len(bhist) - 1), e.name)
          IN  ~before.pending =>
                 /\ ended = <<0>>
                 /\ StatsCount(metrics, e.name) = before.samples

C27_Witness ==
    /\ bhist = <<[op |-> "start", name |-> "x"], [op |-> "start", name |-> "x"],
                 [op |-> "end", name |-> "x"], [op |-> "end", name |-> "x"]>>
    /\ metrics["x"] = <<1>>
    /\ ended = <<0>>
    /\ bclock = 2

====
